---------------------------- MODULE Spec2Model ----------------------------
(***************************************************************************)
(* Authentication resolution cascade of pollinations                       *)
(* (shared/auth-utils.js) and the authentication middleware of             *)
(* text.pollinations.ai (src/middleware/auth.ts), the memoized lookups of  *)
(* the trust service, the tier gating and queue configuration of           *)
(* handleTextGeneration (src/index.ts) and the admission queue behind it.  *)
(*                                                                         *)
(* JavaScript values are modelled as strings: the two markers `null' and   *)
(* `undefined' below stand for the JavaScript values of those names, the   *)
(* empty string is itself.  A lookup result (an object or null) is a       *)
(* record with the flag isNull.                                            *)
(***************************************************************************)
EXTENDS Integers, Sequences, FiniteSets, TLC

VARIABLES
    ENTER_TOKEN,   \* process.env.ENTER_TOKEN
    fn,            \* the entry point that handles the current request
    req,           \* the last request
    net,           \* what the trust service answered to that request's lookups
    fault,         \* the exception raised under handleAuthentication, if any
    outcome,       \* what shouldBypassQueue (called directly) or
                   \* handleAuthentication (under authMiddleware) returned
                   \* or threw, with the lookups it made
    authResult,    \* req.authResult as set by authMiddleware
    nextCalls,     \* how often authMiddleware called next() for the request
    pc,            \* the await at which shouldBypassQueue is suspended
    pending,       \* the lookups the request has issued and not got back
    events,        \* the lookups of the request as issued and settled, in order
    clock,         \* the time, in milliseconds
    cache,         \* the entry of each key in the cache of its memoized lookup
    service,       \* what the trust service holds about each key
    callers,       \* the callers of the memoized lookups
    calls,         \* the remote calls that are running
    lastIssued,    \* when the last remote call for each key was started
    remoteCalls,   \* the number of remote calls started so far
    handler,       \* where handleTextGeneration stands with the current request
    reqAuthResult, \* req.authResult as handleTextGeneration reads it
    requestData,   \* getRequestData(req)
    finalRequestData, \* the request data after the user's model mapping
    res,           \* the response sent for the request
    enqueued,      \* the queue configurations enqueue was called with
    generated,     \* the models generateTextPortkey was called with
    time,          \* the time at the admission queue, in milliseconds
    queues,        \* the tasks pending for each key, in arrival order
    running,       \* the task of each key that is executing
    lastAdmitted,  \* when the last task of each key was admitted
    admissions,    \* the last two admissions of each key, in order
    submitted,     \* the number of tasks submitted so far
    inbound,       \* the request each router call is for
    stage,         \* where each router call stands
    promise,       \* the promise applyMiddleware awaits for each call
    nextCalled,    \* nextCalled of applyMiddleware for each call
    ran,           \* the middlewares and handlers run for each call, in order
    ended          \* the status each call's response was ended with

authVars == <<fn, req, net, fault, outcome, authResult, nextCalls>>
cascadeVars == <<pc, pending, events>>
cacheVars ==
    <<clock, cache, service, callers, calls, lastIssued, remoteCalls>>

\* The state beyond one atomic call of an entry point.
gateVars ==
    <<handler, reqAuthResult, requestData, finalRequestData, res, enqueued,
      generated>>
queueVars == <<time, queues, running, lastAdmitted, admissions, submitted>>
routerVars == <<inbound, stage, promise, nextCalled, ran, ended>>
beyondAuth == <<cascadeVars, cacheVars, gateVars, queueVars, routerVars>>

\* The state beyond one call of shouldBypassQueue taken await by await.
beyondCascade == <<cacheVars, gateVars, queueVars, routerVars>>

vars == <<ENTER_TOKEN, authVars, beyondAuth>>

-----------------------------------------------------------------------------
(* JavaScript values *)

null == "<null>"
undefined == "<undefined>"

\* JavaScript truthiness of a string-or-absent value.
Truthy(v) == v \notin {null, undefined, ""}

\* JavaScript a || b.
Or(a, b) == IF Truthy(a) THEN a ELSE b

-----------------------------------------------------------------------------
(* Requests *)

HeaderNames ==
    {"authorization", "referer", "x-enter-token", "X-Enter-Token",
     "x-github-id", "X-Github-Id"}

\* The secret and the credentials of src/test-enter-token-auth.js.
TestEnterToken == "test-enter-token"
WrongEnterToken == "wrong-enter-token"

\* process.env.ENTER_TOKEN: unset, empty, or the secret.
EnterTokenSettings == {undefined, "", TestEnterToken}

\* The x-enter-token header under the spelling the request object carries it
\* (<<lower case, capitalised>>).
EnterHeaderPairs ==
    { <<undefined, undefined>>, <<"", undefined>>,
      <<TestEnterToken, undefined>>, <<WrongEnterToken, undefined>>,
      <<undefined, TestEnterToken>>, <<undefined, WrongEnterToken>> }

\* The x-github-id header, likewise.
GithubHeaderPairs ==
    { <<undefined, undefined>>, <<"test-github-user", undefined>>,
      <<undefined, "other-github-user">> }

AuthorizationValues == {undefined, "Bearer test-regular-token", "Bearer short"}

RefererValues == {undefined, "https://example.com/page"}

MkRequest(auth, referer, enter, github) ==
    [method |-> "POST", url |-> "/test",
     headers |-> [h \in HeaderNames |->
        CASE h = "authorization" -> auth
          [] h = "referer" -> referer
          [] h = "x-enter-token" -> enter[1]
          [] h = "X-Enter-Token" -> enter[2]
          [] h = "x-github-id" -> github[1]
          [] h = "X-Github-Id" -> github[2]]]

Requests ==
    { MkRequest(a, r, e, g) :
        a \in AuthorizationValues, r \in RefererValues,
        e \in EnterHeaderPairs, g \in GithubHeaderPairs }

\* The request with one header (both spellings given) replaced.
WithHeaders(r, names, v) ==
    [r EXCEPT !.headers = [h \in HeaderNames |->
        IF h \in names THEN v ELSE r.headers[h]]]

-----------------------------------------------------------------------------
(* Credential extraction *)

\* extractToken: the bearer token of the Authorization header, else null.
extractToken(r) ==
    LET a == r.headers["authorization"]
    IN  IF Truthy(a) /\ Len(a) > 7 /\ SubSeq(a, 1, 7) = "Bearer "
        THEN SubSeq(a, 8, Len(a))
        ELSE null

\* getTokenSource: which transport supplied the token.
getTokenSource(r) ==
    IF extractToken(r) # null THEN "header" ELSE null

\* extractReferrer: the Referer header, else null.
extractReferrer(r) == Or(r.headers["referer"], null)

extractEnterToken(r) ==
    Or(Or(r.headers["x-enter-token"], r.headers["X-Enter-Token"]), null)

extractGithubUserId(r) ==
    Or(Or(r.headers["x-github-id"], r.headers["X-Github-Id"]), null)

\* Faulty variant of validateEnterToken: with no secret configured every
\* enter token passes.
validateEnterToken_OpenWhenUnset(enterToken) ==
    IF ~Truthy(enterToken) THEN FALSE
    ELSE IF ~Truthy(ENTER_TOKEN) THEN TRUE
    ELSE enterToken = ENTER_TOKEN

validateEnterToken(enterToken) ==
    IF ~Truthy(enterToken) THEN FALSE
    ELSE IF ~Truthy(ENTER_TOKEN) THEN FALSE
    ELSE enterToken = ENTER_TOKEN

-----------------------------------------------------------------------------
(* The trust service (auth.pollinations.ai) as the lookups see it *)

\* What a fetch of the trust service can come to: the fetch rejects, the
\* status is not 2xx, the body is not JSON, or the body is the JSON `data'.
Failed(status) == [status |-> status]
Json(data) == [status |-> "ok", data |-> data]
TransportFailures == {Failed("throw"), Failed("notok"), Failed("badjson")}

\* Bodies of GET /api/validate-token/{token}.
TokenData(valid, userId, username, tier) ==
    [valid |-> valid, userId |-> userId, username |-> username, tier |-> tier]
TokenResponses ==
    TransportFailures \cup
    { Json(TokenData(FALSE, undefined, undefined, undefined)),
      Json(TokenData(TRUE, "u-token", "alice", "flower")),
      Json(TokenData(TRUE, "u-token", undefined, undefined)),
      Json(TokenData(TRUE, undefined, "alice", "seed")) }

\* Bodies of GET /api/validate-referrer?referrer={domain}.
ReferrerData(valid, user_id, username, tier) ==
    [valid |-> valid, user_id |-> user_id, username |-> username, tier |-> tier]
ReferrerResponses ==
    TransportFailures \cup
    { Json(ReferrerData(FALSE, undefined, undefined, undefined)),
      Json(ReferrerData(TRUE, "u-site", "bob", "seed")),
      Json(ReferrerData(TRUE, "u-site", "bob", "nectar")),
      Json(ReferrerData(TRUE, "u-site", undefined, undefined)),
      Json(ReferrerData(TRUE, undefined, "bob", "seed")) }

\* Bodies of GET /admin/user-info?user_id={id}: {user, userTier}.
NoUser == [present |-> FALSE]
User(github_user_id, username) ==
    [present |-> TRUE, github_user_id |-> github_user_id, username |-> username]
NoUserTier == [present |-> FALSE]
UserTier(tier) == [present |-> TRUE, tier |-> tier]
UserInfoData(user, userTier) == [user |-> user, userTier |-> userTier]
UserInfoResponses ==
    TransportFailures \cup
    { Json(UserInfoData(NoUser, NoUserTier)),
      Json(UserInfoData(User("u-github", "carol"), UserTier("flower"))),
      Json(UserInfoData(User("u-github", undefined), NoUserTier)),
      Json(UserInfoData(User("u-github", "carol"), UserTier(undefined))),
      Json(UserInfoData(User(undefined, "carol"), UserTier("flower"))) }

\* The answers the trust service gives to one request's lookups.
Networks ==
    [token : TokenResponses, referrer : ReferrerResponses,
     userInfo : UserInfoResponses]

\* A lookup's result: null, or {userId, username, tier}.
NullResult == [isNull |-> TRUE]
UserResult(userId, username, tier) ==
    [isNull |-> FALSE, userId |-> userId, username |-> username, tier |-> tier]

\* dbResult && dbResult.userId
HasUserId(result) == ~result.isNull /\ Truthy(result.userId)

\* The first position from `from' on at which the string holds one of the
\* characters that end the host of a URL, or one past its end.
RECURSIVE hostEnd(_, _)
hostEnd(str, from) ==
    IF from > Len(str) THEN from
    ELSE IF SubSeq(str, from, from) \in {"/", "?", "#", ":"} THEN from
    ELSE hostEnd(str, from + 1)

startsWith(str, prefix) ==
    Len(str) >= Len(prefix) /\ SubSeq(str, 1, Len(prefix)) = prefix

\* The domain _checkReferrerInDb asks about: the hostname of a referrer
\* that is a URL, the raw value when it is none or when new URL throws
\* (no host).
domain(referrer) ==
    LET scheme == IF startsWith(referrer, "https://") THEN "https://"
                  ELSE IF startsWith(referrer, "http://") THEN "http://"
                  ELSE ""
        first == Len(scheme) + 1
        hostname == SubSeq(referrer, first, hostEnd(referrer, first) - 1)
    IN  IF scheme = "" \/ hostname = "" THEN referrer ELSE hostname

\* The URL _checkReferrerInDb fetches; a hostname holds no character that
\* encodeURIComponent escapes.
apiUrl(referrer) ==
    "https://auth.pollinations.ai/api/validate-referrer?referrer="
        \o domain(referrer)

_checkReferrerInDb(referrer, response) ==
    IF ~Truthy(referrer) THEN NullResult
    ELSE IF response.status # "ok" THEN NullResult
    ELSE LET data == response.data
         IN  IF data.valid /\ Truthy(data.user_id)
             THEN UserResult(data.user_id, data.username, data.tier)
             ELSE NullResult

\* memoizee(_checkReferrerInDb): the response is the one the cached or the
\* fresh call of _checkReferrerInDb saw.
checkReferrerInDb(referrer, n) == _checkReferrerInDb(referrer, n.referrer)

_validateApiTokenDb(token, response) ==
    IF ~Truthy(token) THEN NullResult
    ELSE IF response.status # "ok" THEN NullResult
    ELSE LET data == response.data
         IN  IF data.valid /\ Truthy(data.userId)
             THEN UserResult(data.userId, Or(data.username, data.userId),
                             Or(data.tier, "seed"))
             ELSE NullResult

validateApiTokenDb(token, n) == _validateApiTokenDb(token, n.token)

_getUserTierFromGithubId(githubUserId, response) ==
    IF ~Truthy(githubUserId) THEN NullResult
    ELSE IF response.status # "ok" THEN NullResult
    ELSE LET data == response.data
         IN  IF data.user.present
             THEN LET tier == IF data.userTier.present
                              THEN data.userTier.tier ELSE "seed"
                  IN  UserResult(data.user.github_user_id,
                                 Or(data.user.username, data.user.github_user_id),
                                 tier)
             ELSE NullResult

getUserTierFromGithubId(githubUserId, n) ==
    _getUserTierFromGithubId(githubUserId, n.userInfo)

-----------------------------------------------------------------------------
(* shouldBypassQueue *)

Min(a, b) == IF a < b THEN a ELSE b

\* String.prototype.substring(from, to) and substring(from).
Substring(str, from, to) == SubSeq(str, from + 1, Min(to, Len(str)))
SubstringFrom(str, from) == SubSeq(str, from + 1, Len(str))

MaskToken(token) ==
    IF Len(token) > 8
    THEN Substring(token, 0, 4) \o "..." \o SubstringFrom(token, Len(token) - 4)
    ELSE token

\* What a call comes to: a returned value or a thrown error, together with
\* the calls of the memoized lookups it made, in order.
Lookup(name, key) == [fn |-> name, key |-> key]
Return(value, lookups) == [kind |-> "return", value |-> value, lookups |-> lookups]
Throw(error, lookups) == [kind |-> "throw", error |-> error, lookups |-> lookups]

\* Faulty variant of noAuth: the anonymous caller is given the seed tier.
noAuth_SeedTier(debugInfo, lookups) ==
    Return([authenticated |-> FALSE,
            tokenAuth |-> FALSE,
            referrerAuth |-> FALSE,
            reason |-> "NO_AUTH_METHOD_SUCCESS",
            userId |-> null,
            username |-> null,
            tier |-> "seed",
            debugInfo |-> [debugInfo EXCEPT !.authResult = "NONE"]],
           lookups)

\* Default return if no authentication method succeeds.
noAuth(debugInfo, lookups) ==
    Return([authenticated |-> FALSE,
            tokenAuth |-> FALSE,
            referrerAuth |-> FALSE,
            reason |-> "NO_AUTH_METHOD_SUCCESS",
            userId |-> null,
            username |-> null,
            tier |-> "anonymous",
            debugInfo |-> [debugInfo EXCEPT !.authResult = "NONE"]],
           lookups)

\* Faulty variant of referrerAuth: the strategy assigns a tier of its own.
referrerAuth_OwnTier(ref, debugInfo, lookups, n) ==
    IF Truthy(ref)
    THEN LET dbReferrerResult == checkReferrerInDb(ref, n)
             issued == Append(lookups, Lookup("checkReferrerInDb", ref))
         IN  IF HasUserId(dbReferrerResult)
             THEN Return([authenticated |-> TRUE,
                          tokenAuth |-> FALSE,
                          referrerAuth |-> TRUE,
                          reason |-> "DB_REFERRER",
                          userId |-> dbReferrerResult.userId,
                          username |-> dbReferrerResult.username,
                          tier |-> "seed",
                          debugInfo |-> [debugInfo EXCEPT
                              !.authResult = "DB_REFERRER",
                              !.dbReferrerMatch = TRUE,
                              !.userId = dbReferrerResult.userId,
                              !.username = dbReferrerResult.username,
                              !.tier = "seed"]],
                         issued)
             ELSE noAuth(debugInfo, issued)
    ELSE noAuth(debugInfo, lookups)

\* 2. Referrer-based authentication.
referrerAuth(ref, debugInfo, lookups, n) ==
    IF Truthy(ref)
    THEN LET refStr == ref
             dbReferrerResult == checkReferrerInDb(refStr, n)
             issued == Append(lookups, Lookup("checkReferrerInDb", refStr))
         IN  IF HasUserId(dbReferrerResult)
             THEN Return([authenticated |-> TRUE,
                          tokenAuth |-> FALSE,
                          referrerAuth |-> TRUE,
                          reason |-> "DB_REFERRER",
                          userId |-> dbReferrerResult.userId,
                          username |-> dbReferrerResult.username,
                          tier |-> dbReferrerResult.tier,
                          debugInfo |-> [debugInfo EXCEPT
                              !.authResult = "DB_REFERRER",
                              !.dbReferrerMatch = TRUE,
                              !.userId = dbReferrerResult.userId,
                              !.username = dbReferrerResult.username,
                              !.tier = dbReferrerResult.tier]],
                         issued)
             ELSE noAuth(debugInfo, issued)
    ELSE noAuth(debugInfo, lookups)

\* The verdict of a validated bearer token, as tokenAuth returns it.
TokenVerdict(tokenResult, debugInfo) ==
    [authenticated |-> TRUE,
     tokenAuth |-> TRUE,
     referrerAuth |-> FALSE,
     reason |-> "DB_TOKEN",
     userId |-> tokenResult.userId,
     username |-> tokenResult.username,
     tier |-> tokenResult.tier,
     debugInfo |-> [debugInfo EXCEPT
         !.authResult = "DB_TOKEN",
         !.userId = tokenResult.userId,
         !.username = tokenResult.username,
         !.tier = tokenResult.tier]]

\* Faulty variant of tokenAuth: a registered referrer is tried before the
\* bearer token.
tokenAuth_ReferrerFirst(token, ref, debugInfo, n) ==
    LET viaReferrer == referrerAuth(ref, debugInfo, <<>>, n)
    IN  IF viaReferrer.value.authenticated \/ ~Truthy(token)
        THEN viaReferrer
        ELSE LET tokenResult == validateApiTokenDb(token, n)
                 issued == Append(viaReferrer.lookups,
                                  Lookup("validateApiTokenDb", token))
             IN  IF HasUserId(tokenResult)
                 THEN Return(TokenVerdict(tokenResult, debugInfo), issued)
                 ELSE noAuth(debugInfo, issued)

\* Faulty variant of tokenAuth: an unrecognized token is an error (the throw
\* that auth-utils.js has commented out).
tokenAuth_ThrowOnInvalid(token, ref, debugInfo, n) ==
    IF Truthy(token)
    THEN LET tokenResult == validateApiTokenDb(token, n)
             issued == <<Lookup("validateApiTokenDb", token)>>
         IN  IF HasUserId(tokenResult)
             THEN Return(TokenVerdict(tokenResult, debugInfo), issued)
             ELSE Throw([raised |-> TRUE,
                         message |-> "Invalid or unrecognized token provided",
                         status |-> undefined,
                         authResult |-> "INVALID_TOKEN"], issued)
    ELSE referrerAuth(ref, debugInfo, <<>>, n)

\* 1. Token-based authentication; an unrecognized token is passed over.
tokenAuth(token, ref, debugInfo, n) ==
    IF Truthy(token)
    THEN LET tokenResult == validateApiTokenDb(token, n)
             issued == <<Lookup("validateApiTokenDb", token)>>
         IN  IF HasUserId(tokenResult)
             THEN Return(TokenVerdict(tokenResult, debugInfo), issued)
             ELSE referrerAuth(ref, debugInfo, issued, n)
    ELSE referrerAuth(ref, debugInfo, <<>>, n)

\* Faulty variant of enterTokenAuth: the identity found for the GitHub id is
\* given the default tier instead of its own.
enterTokenAuth_DefaultTier(githubUserId, debugInfo, n) ==
    LET asked == Truthy(githubUserId)
        githubUserResult ==
            IF asked THEN getUserTierFromGithubId(githubUserId, n) ELSE NullResult
        issued ==
            IF asked THEN <<Lookup("getUserTierFromGithubId", githubUserId)>>
            ELSE <<>>
        found == asked /\ HasUserId(githubUserResult)
        userId == IF found THEN githubUserResult.userId ELSE null
        username == IF found THEN githubUserResult.username ELSE null
        reason == IF found THEN "ENTER_TOKEN_WITH_GITHUB" ELSE "ENTER_TOKEN"
    IN  Return([authenticated |-> TRUE,
                tokenAuth |-> TRUE,
                referrerAuth |-> FALSE,
                reason |-> reason,
                userId |-> userId,
                username |-> username,
                tier |-> "seed",
                debugInfo |-> [debugInfo EXCEPT
                    !.authResult = reason,
                    !.userId = userId,
                    !.username = username,
                    !.tier = "seed"]],
               issued)

\* Faulty variant of enterTokenAuth: the verdict of the enter token is not
\* flagged as token authentication.
enterTokenAuth_NoTokenAuth(githubUserId, debugInfo, n) ==
    LET asked == Truthy(githubUserId)
        githubUserResult ==
            IF asked THEN getUserTierFromGithubId(githubUserId, n) ELSE NullResult
        issued ==
            IF asked THEN <<Lookup("getUserTierFromGithubId", githubUserId)>>
            ELSE <<>>
        found == asked /\ HasUserId(githubUserResult)
        userId == IF found THEN githubUserResult.userId ELSE null
        username == IF found THEN githubUserResult.username ELSE null
        tier == IF found THEN githubUserResult.tier ELSE "seed"
        reason == IF found THEN "ENTER_TOKEN_WITH_GITHUB" ELSE "ENTER_TOKEN"
    IN  Return([authenticated |-> TRUE,
                tokenAuth |-> FALSE,
                referrerAuth |-> FALSE,
                reason |-> reason,
                userId |-> userId,
                username |-> username,
                tier |-> tier,
                debugInfo |-> [debugInfo EXCEPT
                    !.authResult = reason,
                    !.userId = userId,
                    !.username = username,
                    !.tier = tier]],
               issued)

\* 0. Enter-token authentication, once the enter token is found valid.
enterTokenAuth(githubUserId, debugInfo, n) ==
    LET asked == Truthy(githubUserId)
        githubUserResult ==
            IF asked THEN getUserTierFromGithubId(githubUserId, n) ELSE NullResult
        issued ==
            IF asked THEN <<Lookup("getUserTierFromGithubId", githubUserId)>>
            ELSE <<>>
    IN  IF asked /\ HasUserId(githubUserResult)
        THEN Return([authenticated |-> TRUE,
                     tokenAuth |-> TRUE,
                     referrerAuth |-> FALSE,
                     reason |-> "ENTER_TOKEN_WITH_GITHUB",
                     userId |-> githubUserResult.userId,
                     username |-> githubUserResult.username,
                     tier |-> githubUserResult.tier,
                     debugInfo |-> [debugInfo EXCEPT
                         !.authResult = "ENTER_TOKEN_WITH_GITHUB",
                         !.userId = githubUserResult.userId,
                         !.username = githubUserResult.username,
                         !.tier = githubUserResult.tier]],
                    issued)
        ELSE Return([authenticated |-> TRUE,
                     tokenAuth |-> TRUE,
                     referrerAuth |-> FALSE,
                     reason |-> "ENTER_TOKEN",
                     userId |-> null,
                     username |-> null,
                     tier |-> "seed",
                     debugInfo |-> [debugInfo EXCEPT
                         !.authResult = "ENTER_TOKEN",
                         !.userId = null,
                         !.username = null,
                         !.tier = "seed"]],
                    issued)

\* The debug record as first built; dbReferrerMatch is FALSE while unset.
initialDebugInfo(r) ==
    LET token == extractToken(r)
        enterToken == extractEnterToken(r)
    IN  [token |-> IF Truthy(token) THEN MaskToken(token) ELSE null,
         referrer |-> extractReferrer(r),
         tokenSource |-> IF Truthy(token) THEN getTokenSource(r) ELSE null,
         enterToken |-> IF Truthy(enterToken)
                        THEN Substring(enterToken, 0, 8) \o "..." ELSE null,
         githubUserId |-> extractGithubUserId(r),
         authResult |-> undefined,
         dbReferrerMatch |-> FALSE,
         userId |-> undefined,
         username |-> undefined,
         tier |-> undefined]

\* Faulty variant of shouldBypassQueue: with a valid enter token whose GitHub
\* id does not resolve, normal authentication goes on.
shouldBypassQueue_FallThrough(r, n) ==
    LET enterToken == extractEnterToken(r)
        debugInfo == initialDebugInfo(r)
        elevated == enterTokenAuth(extractGithubUserId(r), debugInfo, n)
    IN  IF Truthy(enterToken) /\ validateEnterToken(enterToken)
           /\ elevated.value.reason = "ENTER_TOKEN_WITH_GITHUB"
        THEN elevated
        ELSE tokenAuth(extractToken(r), extractReferrer(r), debugInfo, n)

\* Faulty variant of shouldBypassQueue: the bearer token and the referrer are
\* tried before the enter token.
shouldBypassQueue_TokenFirst(r, n) ==
    LET enterToken == extractEnterToken(r)
        debugInfo == initialDebugInfo(r)
        normal == tokenAuth(extractToken(r), extractReferrer(r), debugInfo, n)
    IN  IF normal.value.authenticated THEN normal
        ELSE IF Truthy(enterToken) /\ validateEnterToken(enterToken)
        THEN enterTokenAuth(extractGithubUserId(r), debugInfo, n)
        ELSE normal

\* Faulty variant of shouldBypassQueue: an invalid enter token ends the
\* cascade.
shouldBypassQueue_RejectInvalid(r, n) ==
    LET enterToken == extractEnterToken(r)
        debugInfo == initialDebugInfo(r)
    IN  IF Truthy(enterToken)
        THEN IF validateEnterToken(enterToken)
             THEN enterTokenAuth(extractGithubUserId(r), debugInfo, n)
             ELSE noAuth(debugInfo, <<>>)
        ELSE tokenAuth(extractToken(r), extractReferrer(r), debugInfo, n)

\* Faulty variant of shouldBypassQueue: a GitHub id that resolves is trusted
\* without a valid enter token.
shouldBypassQueue_TrustGithubId(r, n) ==
    LET enterToken == extractEnterToken(r)
        githubUserId == extractGithubUserId(r)
        debugInfo == initialDebugInfo(r)
    IN  IF \/ Truthy(enterToken) /\ validateEnterToken(enterToken)
           \/ /\ Truthy(githubUserId)
              /\ HasUserId(getUserTierFromGithubId(githubUserId, n))
        THEN enterTokenAuth(githubUserId, debugInfo, n)
        ELSE tokenAuth(extractToken(r), extractReferrer(r), debugInfo, n)

shouldBypassQueue(r, n) ==
    LET token == extractToken(r)
        ref == extractReferrer(r)
        enterToken == extractEnterToken(r)
        githubUserId == extractGithubUserId(r)
        debugInfo == initialDebugInfo(r)
    IN  IF Truthy(enterToken) /\ validateEnterToken(enterToken)
        THEN enterTokenAuth(githubUserId, debugInfo, n)
        ELSE tokenAuth(token, ref, debugInfo, n)

-----------------------------------------------------------------------------
(* The memoized lookups: memoizee(_fn, {maxAge: 30000, promise: true}) *)

\* The TTL of a cached result, in milliseconds.
maxAge == 30000

\* The time a step of the clock takes, and the number of steps looked at.
TickMillis == 15000
MaxTicks == 3

\* The number of remote calls looked at.
MaxRemoteCalls == 2

Never == -1

\* The keys looked up: a bearer token, a referrer and a GitHub id.
LookupKeys ==
    { Lookup("validateApiTokenDb", "test-regular-token"),
      Lookup("checkReferrerInDb", "https://example.com/page"),
      Lookup("getUserTierFromGithubId", "test-github-user") }

\* Referrers looked up: two pages of one site and a page of another, and
\* next to them the bearer token.
ReferrerKeys ==
    { Lookup("checkReferrerInDb", "https://example.com/page"),
      Lookup("checkReferrerInDb", "https://example.com/other"),
      Lookup("checkReferrerInDb", "https://elsewhere.org/") }
SiteKeys == ReferrerKeys \cup {Lookup("validateApiTokenDb", "test-regular-token")}

\* Every key of the caches.
MemoKeys == LookupKeys \cup SiteKeys

Callers == {1, 2}

\* Faulty variant of normalizer: the three functions share one cache entry.
normalizer_OneEntry(lookup) ==
    Lookup("validateApiTokenDb", "test-regular-token")

\* The entry of memoizee's cache a call goes to.  No normalizer is given:
\* each memoized function has its own cache, indexed by the argument as it
\* is passed.
normalizer(lookup) == lookup

\* The trust service's answer for a key it holds valid, and for one it does
\* not.
ValidResponse(lookup) ==
    CASE lookup.fn = "validateApiTokenDb" ->
            Json(TokenData(TRUE, "u-token", "alice", "flower"))
      [] lookup.fn = "checkReferrerInDb" ->
            IF domain(lookup.key) = "example.com"
            THEN Json(ReferrerData(TRUE, "u-site", "bob", "seed"))
            ELSE Json(ReferrerData(TRUE, "u-elsewhere", "dave", "seed"))
      [] lookup.fn = "getUserTierFromGithubId" ->
            Json(UserInfoData(User("u-github", "carol"), UserTier("flower")))
InvalidResponse(lookup) ==
    CASE lookup.fn = "validateApiTokenDb" ->
            Json(TokenData(FALSE, undefined, undefined, undefined))
      [] lookup.fn = "checkReferrerInDb" ->
            Json(ReferrerData(FALSE, undefined, undefined, undefined))
      [] lookup.fn = "getUserTierFromGithubId" ->
            Json(UserInfoData(NoUser, NoUserTier))

\* The function memoizee wraps, run on the response its fetch got.
Invoke(lookup, response) ==
    CASE lookup.fn = "validateApiTokenDb" ->
            _validateApiTokenDb(lookup.key, response)
      [] lookup.fn = "checkReferrerInDb" ->
            _checkReferrerInDb(lookup.key, response)
      [] lookup.fn = "getUserTierFromGithubId" ->
            _getUserTierFromGithubId(lookup.key, response)

\* The entry of a key in memoizee's cache: none, the promise of a running
\* call (named by the caller that started it), or that promise resolved (the
\* timer of maxAge starts then).
Absent == [state |-> "absent"]
Pending(by, issuedAt) ==
    [state |-> "pending", by |-> by, issuedAt |-> issuedAt]
Resolved(value, issuedAt, at) ==
    [state |-> "resolved", value |-> value, issuedAt |-> issuedAt,
     insertedAt |-> at]

\* Faulty variant of memoized: a call that finds the promise of a running
\* call runs the function again.
memoized_NoCoalesce(entry) ==
    IF entry.state = "resolved" THEN "hit" ELSE "miss"

\* Faulty variant of memoized: a resolved null is not taken for a cached
\* result.
memoized_NoNegative(entry) ==
    CASE entry.state = "resolved" /\ ~entry.value.isNull -> "hit"
      [] entry.state = "pending" -> "join"
      [] OTHER -> "miss"

\* What a call of the memoized function finds for its key: a resolved
\* promise, the promise of a running call, or nothing.
memoized(entry) ==
    CASE entry.state = "resolved" -> "hit"
      [] entry.state = "pending" -> "join"
      [] OTHER -> "miss"

\* Faulty variant of Expired: no maxAge is set.
Expired_Never(entry, now) == FALSE

\* The timer of a resolved entry has run out at the time `now'.
Expired(entry, now) ==
    entry.state = "resolved" /\ now - entry.insertedAt >= maxAge

\* A remote call, started by the caller `by' when the cache held `found' for
\* the key and the key's last remote call dated from `previous': sent, or
\* answered by the trust service.
Sent(lookup, by, at, found, previous) ==
    [lookup |-> lookup, by |-> by, state |-> "sent", issuedAt |-> at,
     found |-> found, previous |-> previous, response |-> Failed("pending")]
Answered(call, response) ==
    [call EXCEPT !.state = "answered", !.response = response]

\* A caller of a memoized lookup: idle, awaiting the promise of a call, or
\* holding the value its promise resolved to.
Idle == [state |-> "idle"]
Waiting(lookup, by) == [state |-> "waiting", lookup |-> lookup, by |-> by]
Got(lookup, value, cached) ==
    [state |-> "got", lookup |-> lookup, value |-> value, cached |-> cached]

\* Nothing is cached, no call is running and the trust service holds every
\* key valid.
CachesEmpty ==
    /\ clock = 0
    /\ cache = [l \in MemoKeys |-> Absent]
    /\ service = [l \in MemoKeys |->
                    [response |-> ValidResponse(l), revokedAt |-> Never]]
    /\ callers = [c \in Callers |-> Idle]
    /\ calls = {}
    /\ lastIssued = [l \in MemoKeys |-> Never]
    /\ remoteCalls = 0

\* The keys looked up so far.
LookedUp == {l \in LookupKeys : lastIssued[l] # Never}

\* No caller is about to go on with a value.
NoneGot == \A c \in Callers : callers[c].state # "got"

\* The state beyond the memoized lookups and their callers.
beyondCache ==
    <<ENTER_TOKEN, authVars, cascadeVars, gateVars, queueVars, routerVars>>

\* A caller calls the memoized lookup of a key.
CallLookup(c, l) ==
    /\ NoneGot
    /\ callers[c].state = "idle"
    /\ LET entry == cache[normalizer(l)]
           found == memoized(entry)
       IN  CASE found = "hit" ->
                  /\ callers' = [callers EXCEPT ![c] =
                                    Got(l, entry.value, TRUE)]
                  /\ UNCHANGED <<cache, calls, lastIssued, remoteCalls>>
             [] found = "join" ->
                  /\ callers' = [callers EXCEPT ![c] = Waiting(l, entry.by)]
                  /\ UNCHANGED <<cache, calls, lastIssued, remoteCalls>>
             [] found = "miss" ->
                  /\ remoteCalls < MaxRemoteCalls
                  /\ remoteCalls' = remoteCalls + 1
                  /\ calls' = calls \cup {Sent(l, c, clock, entry, lastIssued[l])}
                  /\ lastIssued' = [lastIssued EXCEPT ![l] = clock]
                  /\ cache' = [cache EXCEPT
                                  ![normalizer(l)] = Pending(c, clock)]
                  /\ callers' = [callers EXCEPT ![c] = Waiting(l, c)]
    /\ UNCHANGED <<clock, service, beyondCache>>

\* The trust service answers a remote call from what it holds then, or the
\* call fails in transport.
ServiceAnswers(call) ==
    /\ NoneGot
    /\ call.state = "sent"
    /\ \E response \in {service[call.lookup].response, Failed("notok")} :
        calls' = (calls \ {call}) \cup {Answered(call, response)}
    /\ UNCHANGED <<clock, cache, service, callers, lastIssued, remoteCalls,
                   beyondCache>>

\* The answer arrives: the promise of the call resolves, its entry starts
\* to age and the callers that await it go on.
Deliver(call) ==
    /\ NoneGot
    /\ call.state = "answered"
    /\ LET l == call.lookup
           value == Invoke(l, call.response)
       IN  /\ calls' = calls \ {call}
           /\ cache' = [cache EXCEPT ![normalizer(l)] =
                IF @.state = "pending" /\ @.by = call.by
                THEN Resolved(value, call.issuedAt, clock) ELSE @]
           /\ callers' = [c \in Callers |->
                IF callers[c] = Waiting(l, call.by)
                THEN Got(l, value, FALSE) ELSE callers[c]]
    /\ UNCHANGED <<clock, service, lastIssued, remoteCalls, beyondCache>>

\* The callers go on with their values.
TakeResults ==
    /\ ~NoneGot
    /\ callers' = [c \in Callers |->
                      IF callers[c].state = "got" THEN Idle ELSE callers[c]]
    /\ UNCHANGED <<clock, cache, service, calls, lastIssued, remoteCalls,
                   beyondCache>>

\* Time passes; the timers that run out delete their entries.
Tick ==
    /\ NoneGot
    /\ clock + TickMillis <= MaxTicks * TickMillis
    /\ clock' = clock + TickMillis
    /\ cache' = [l \in MemoKeys |->
                    IF Expired(cache[l], clock + TickMillis)
                    THEN Absent ELSE cache[l]]
    /\ UNCHANGED <<service, callers, calls, lastIssued, remoteCalls,
                   beyondCache>>

\* The trust service revokes a key that has been looked up; one key is
\* revoked in a run.
Revoke(l) ==
    /\ NoneGot
    /\ l \in LookedUp
    /\ \A k \in LookupKeys : service[k].revokedAt = Never
    /\ service' = [service EXCEPT ![l] =
                      [response |-> InvalidResponse(l), revokedAt |-> clock]]
    /\ UNCHANGED <<clock, cache, callers, calls, lastIssued, remoteCalls,
                   beyondCache>>

-----------------------------------------------------------------------------
(* handleTextGeneration: tier gating, model mapping and queue configuration *)

\* The tiers, lowest first.
TierLevels == <<"anonymous", "seed", "flower", "nectar">>

\* hasSufficientTier(userTier, requiredTier): the user's tier is at or above
\* the required one in the order of the tiers.
hasSufficientTier(userTier, requiredTier) ==
    \E i, j \in DOMAIN TierLevels :
        /\ TierLevels[i] = userTier
        /\ TierLevels[j] = requiredTier
        /\ i >= j

\* The model registry: name, aliases and minimum tier of each model.
Model(name, aliases, tier) == [name |-> name, aliases |-> aliases, tier |-> tier]
availableModels ==
    << Model("openai", {"gpt-4o-mini"}, "anonymous"),
       Model("openai-fast", {"gpt-4.1-nano"}, "seed"),
       Model("openai-large", {"gpt-4o"}, "flower"),
       Model("openai-reasoning", {}, "nectar") >>

\* The models requests ask for: names and aliases of the registry, and two
\* names it does not hold.
RequestedModels ==
    {"openai", "gpt-4o-mini", "openai-fast", "openai-large", "gpt-4o",
     "openai-reasoning", "no-such-model", ""}

\* The field of an object, undefined when the object lacks it.
Field(object, name) ==
    IF name \in DOMAIN object THEN object[name] ELSE undefined

\* What handleTextGeneration reads of req.authResult.
AuthResultRead(v) ==
    [authenticated |-> v.authenticated,
     tokenAuth |-> v.tokenAuth,
     referrerAuth |-> v.referrerAuth,
     tier |-> v.tier,
     username |-> Field(v, "username"),
     reason |-> Field(v, "reason")]

\* availableModels.find(m => m.name === name || m.aliases?.includes(name))
NoModel == [found |-> FALSE]
FoundModel(m) == [found |-> TRUE, name |-> m.name, tier |-> m.tier]
findModel(name) ==
    LET matches == {i \in DOMAIN availableModels :
                        \/ availableModels[i].name = name
                        \/ name \in availableModels[i].aliases}
    IN  IF matches = {} THEN NoModel
        ELSE FoundModel(availableModels[CHOOSE i \in matches :
                                            \A j \in matches : i <= j])

\* Responses: none yet, or a status with the message or content sent.
NoResponse == [status |-> "none"]
Response(status, message) == [status |-> status, message |-> message]

AuthPointer ==
    ". To get a token or add a referrer, visit https://auth.pollinations.ai"
TierDenied(userTier, requiredTier) ==
    Response("402",
             <<"Model not found or tier not high enough. Your tier: ", userTier,
               ", required tier: ", requiredTier, AuthPointer>>)
ModelNotFound(name) == Response("404", <<"Model not found: ", name>>)

Pass == [pass |-> TRUE]
Reject(response) == [pass |-> FALSE, response |-> response]

\* Faulty variant of tierGating: aliases are not looked at.
tierGating_NamesOnly(auth, data) ==
    LET named == {i \in DOMAIN availableModels :
                      availableModels[i].name = data.model}
    IN  IF named = {} THEN Reject(ModelNotFound(data.model))
        ELSE LET model == availableModels[CHOOSE i \in named : TRUE]
             IN  IF hasSufficientTier(auth.tier, model.tier) THEN Pass
                 ELSE Reject(TierDenied(auth.tier, model.tier))

\* Faulty variant of tierGating: one rejection for both failures.
tierGating_OneRejection(auth, data) ==
    LET model == findModel(data.model)
    IN  IF model.found /\ hasSufficientTier(auth.tier, model.tier) THEN Pass
        ELSE Reject(TierDenied(auth.tier,
                               IF model.found THEN model.tier ELSE undefined))

\* The tier gating of handleTextGeneration.
tierGating(auth, data) ==
    LET model == findModel(data.model)
    IN  IF model.found
        THEN IF hasSufficientTier(auth.tier, model.tier) THEN Pass
             ELSE Reject(TierDenied(auth.tier, model.tier))
        ELSE Reject(ModelNotFound(data.model))

\* What getUserMappedModel(username) does: it returns no model or a model,
\* or throws, with status 403 or with another error.
NoMapping == [kind |-> "return", model |-> null]
MappedTo(model) == [kind |-> "return", model |-> model]
MappingThrows(status) == [kind |-> "throw", status |-> status]
Mappings ==
    {NoMapping, MappedTo("openai-reasoning"), MappingThrows("403"),
     MappingThrows(undefined)}

\* Faulty variant of userModelMapping: the mapping is applied to callers
\* without a username too.
userModelMapping_Anyone(auth, data, mapping) ==
    IF mapping.kind = "return"
    THEN [pass |-> TRUE,
          data |-> IF Truthy(mapping.model)
                   THEN [data EXCEPT !.model = mapping.model] ELSE data]
    ELSE IF mapping.status = "403"
         THEN Reject(Response("403", <<"getUserMappedModel">>))
         ELSE [pass |-> TRUE, data |-> data]

\* The user-specific model mapping of handleTextGeneration.
userModelMapping(auth, data, mapping) ==
    IF ~Truthy(auth.username) THEN [pass |-> TRUE, data |-> data]
    ELSE IF mapping.kind = "return"
         THEN [pass |-> TRUE,
               data |-> IF Truthy(mapping.model)
                        THEN [data EXCEPT !.model = mapping.model] ELSE data]
         ELSE IF mapping.status = "403"
              THEN Reject(Response("403", <<"getUserMappedModel">>))
              ELSE [pass |-> TRUE, data |-> data]

\* Faulty variant of queueConfig: a verdict of the enter token gets a class of
\* its own.
queueConfig_ElevatedApart(auth) ==
    IF auth.tokenAuth
    THEN [interval |-> IF auth.reason = "DB_TOKEN" THEN 1000 ELSE 3000]
    ELSE IF auth.referrerAuth THEN [interval |-> 3000]
    ELSE [interval |-> 6000]

\* The queue configuration of handleTextGeneration.
queueConfig(auth) ==
    IF auth.tokenAuth THEN [interval |-> 1000]
    ELSE IF auth.referrerAuth THEN [interval |-> 3000]
    ELSE [interval |-> 6000]

NoRequestData == [model |-> undefined, messages |-> FALSE]

\* handleTextGeneration handles no request.
HandlerIdle ==
    /\ handler = "idle"
    /\ reqAuthResult = [absent |-> TRUE]
    /\ requestData = NoRequestData
    /\ finalRequestData = NoRequestData
    /\ res = NoResponse
    /\ enqueued = <<>>
    /\ generated = <<>>

-----------------------------------------------------------------------------
(* The admission queue: enqueue(req, task, queueConfig) of shared/ipQueue.js *)

QueueTickMillis == 1000
MaxQueueTicks == 6
MaxTasks == 3

\* The keys of the queue: the addresses requests come from.
QueueKeys == {"203.0.113.1", "203.0.113.2"}

\* The verdicts as the queue configuration tells them apart.
QueueClasses ==
    { [tokenAuth |-> TRUE, referrerAuth |-> FALSE],
      [tokenAuth |-> FALSE, referrerAuth |-> TRUE],
      [tokenAuth |-> FALSE, referrerAuth |-> FALSE] }

Task(id, interval) == [id |-> id, interval |-> interval]
Admission(key, task, at) ==
    [key |-> key, id |-> task.id, interval |-> task.interval, at |-> at]

\* No request has been enqueued.
QueuesEmpty ==
    /\ time = 0
    /\ queues = [k \in QueueKeys |-> <<>>]
    /\ running = [k \in QueueKeys |-> {}]
    /\ lastAdmitted = [k \in QueueKeys |-> Never]
    /\ admissions = [k \in QueueKeys |-> <<>>]
    /\ submitted = 0

beyondQueue ==
    <<ENTER_TOKEN, authVars, cascadeVars, cacheVars, gateVars, routerVars>>

\* Faulty variant of mayAdmit: the next task does not wait for the one that
\* is executing.
mayAdmit_Overlapping(k) ==
    /\ queues[k] # <<>>
    /\ \/ lastAdmitted[k] = Never
       \/ time - lastAdmitted[k] >= Head(queues[k]).interval

\* Faulty variant of mayAdmit: the spacing is that of the shortest interval.
mayAdmit_ShortestInterval(k) ==
    /\ queues[k] # <<>>
    /\ running[k] = {}
    /\ \/ lastAdmitted[k] = Never
       \/ time - lastAdmitted[k] >= queueConfig([tokenAuth |-> TRUE]).interval

\* The first pending task of the key may start: no task of the key is
\* executing, and the interval of the task has passed since the last
\* admission for the key.
mayAdmit(k) ==
    /\ queues[k] # <<>>
    /\ running[k] = {}
    /\ \/ lastAdmitted[k] = Never
       \/ time - lastAdmitted[k] >= Head(queues[k]).interval

\* handleTextGeneration enqueues the task of a request that came from k.
Enqueue(k, auth) ==
    /\ submitted < MaxTasks
    /\ submitted' = submitted + 1
    /\ queues' = [queues EXCEPT
                    ![k] = Append(@, Task(submitted + 1,
                                          queueConfig(auth).interval))]
    /\ UNCHANGED <<time, running, lastAdmitted, admissions, beyondQueue>>

\* The queue starts the first pending task of k.
Admit(k) ==
    /\ mayAdmit(k)
    /\ LET task == Head(queues[k])
       IN  /\ running' = [running EXCEPT ![k] = @ \cup {task.id}]
           /\ admissions' =
                [admissions EXCEPT
                    ![k] = IF @ = <<>> THEN <<Admission(k, task, time)>>
                           ELSE <<@[Len(@)], Admission(k, task, time)>>]
    /\ queues' = [queues EXCEPT ![k] = Tail(@)]
    /\ lastAdmitted' = [lastAdmitted EXCEPT ![k] = time]
    /\ UNCHANGED <<time, submitted, beyondQueue>>

\* A task of k that is executing ends.
Finish(k) ==
    /\ \E id \in running[k] : running' = [running EXCEPT ![k] = @ \ {id}]
    /\ UNCHANGED <<time, queues, lastAdmitted, admissions, submitted, beyondQueue>>

\* Time passes.
QueueTick ==
    /\ time + QueueTickMillis <= MaxQueueTicks * QueueTickMillis
    /\ time' = time + QueueTickMillis
    /\ UNCHANGED <<queues, running, lastAdmitted, admissions, submitted,
                   beyondQueue>>

-----------------------------------------------------------------------------
(* The router and its middleware chain: requests *)

\* The router calls that run side by side.
RouterCalls == {1, 2}

\* The requests as the middlewares and the routes tell them apart: the
\* method, the path, and whether the address is in blockedIPs.
Inbound(method, pathname, blocked) ==
    [method |-> method, pathname |-> pathname, blocked |-> blocked]
NoInbound == Inbound(undefined, undefined, FALSE)
Inbounds ==
    { Inbound(method, pathname, blocked) :
        method \in {"GET", "POST", "OPTIONS"},
        pathname \in {"/", "/models", "/openai/chat/completions"},
        blocked \in BOOLEAN }

\* The chain of the router.
Middlewares == <<"corsMiddleware", "blockIPMiddleware", "authMiddleware">>

\* No request is at the router.
RouterIdle ==
    /\ inbound = [i \in RouterCalls |-> NoInbound]
    /\ stage = [i \in RouterCalls |-> "idle"]
    /\ promise = [i \in RouterCalls |-> "none"]
    /\ nextCalled = [i \in RouterCalls |-> FALSE]
    /\ ran = [i \in RouterCalls |-> <<>>]
    /\ ended = [i \in RouterCalls |-> "none"]

-----------------------------------------------------------------------------
(* handleAuthentication and authMiddleware *)

\* An error raised under handleAuthentication's try block by the code
\* shouldBypassQueue calls; authResult is details.debugInfo.authResult.
NoFault == [raised |-> FALSE]
Error(message, status, result) ==
    [raised |-> TRUE, message |-> message, status |-> status, authResult |-> result]
Faults ==
    { NoFault,
      Error("unexpected failure", undefined, undefined),
      Error("Invalid or unrecognized token provided", undefined, "INVALID_TOKEN") }

\* The network of a request whose lookups got no answer.
NoAnswers ==
    [token |-> Failed("throw"), referrer |-> Failed("throw"),
     userInfo |-> Failed("throw")]

\* Faulty variant of handleAuthentication: the verdict is handed on as
\* shouldBypassQueue returned it, a missing tier included.
handleAuthentication_KeepTier(r, n, f) ==
    LET tried == IF f.raised THEN Throw(f, <<>>) ELSE shouldBypassQueue(r, n)
    IN  IF tried.kind = "return" THEN tried
        ELSE IF tried.error.authResult = "INVALID_TOKEN"
             THEN Throw(Error("Invalid authentication token", "401", undefined),
                        tried.lookups)
             ELSE tried

handleAuthentication(r, n, f) ==
    LET tried == IF f.raised THEN Throw(f, <<>>) ELSE shouldBypassQueue(r, n)
    IN  IF tried.kind = "return"
        THEN LET result == tried.value
                 debugInfo == result.debugInfo
             IN  Return([result EXCEPT !.tier = Or(debugInfo.tier, "anonymous")],
                        tried.lookups)
        ELSE IF tried.error.authResult = "INVALID_TOKEN"
             THEN Throw(Error("Invalid authentication token", "401", undefined),
                        tried.lookups)
             ELSE tried

\* Faulty variant of unauthenticatedResult: the fallback fails open.
unauthenticatedResult_FailOpen ==
    [authenticated |-> TRUE, tokenAuth |-> FALSE, referrerAuth |-> FALSE,
     tier |-> "anonymous"]

\* The verdict authMiddleware attaches when handleAuthentication throws.
unauthenticatedResult ==
    [authenticated |-> FALSE, tokenAuth |-> FALSE, referrerAuth |-> FALSE,
     tier |-> "anonymous"]

NoCall == [kind |-> "none"]
NoAuthResult == [absent |-> TRUE]

\* No call of shouldBypassQueue is suspended.
CascadeIdle == pc = "idle" /\ pending = {} /\ events = <<>>

\* No request is being authenticated.
AuthIdle ==
    /\ fn = "none"
    /\ req = MkRequest(undefined, undefined,
                       <<undefined, undefined>>, <<undefined, undefined>>)
    /\ net = NoAnswers
    /\ fault = NoFault
    /\ outcome = NoCall
    /\ authResult = NoAuthResult
    /\ nextCalls = 0

Init ==
    /\ ENTER_TOKEN \in EnterTokenSettings
    /\ AuthIdle
    /\ CascadeIdle
    /\ CachesEmpty
    /\ HandlerIdle
    /\ QueuesEmpty
    /\ RouterIdle

\* A caller awaits shouldBypassQueue(req), as test-enter-token-auth.js does.
CallShouldBypassQueue ==
    /\ fn = "none"
    /\ \E r \in Requests, n \in Networks :
        /\ fn' = "shouldBypassQueue"
        /\ req' = r
        /\ net' = n
        /\ fault' = NoFault
        /\ outcome' = shouldBypassQueue(r, n)
        /\ authResult' = NoAuthResult
        /\ nextCalls' = 0
        /\ UNCHANGED <<ENTER_TOKEN, beyondAuth>>

\* Faulty variant of authMiddleware: an error of handleAuthentication ends
\* the request there, with nothing attached and next() not called.
authMiddleware_RejectOnThrow(got) ==
    IF got.kind = "return"
    THEN [authResult |-> got.value, nextCalls |-> 1]
    ELSE [authResult |-> NoAuthResult, nextCalls |-> 0]

\* What authMiddleware does with the outcome of handleAuthentication: what
\* it attaches as req.authResult, and how often it calls next().
authMiddleware(got) ==
    IF got.kind = "return"
    THEN [authResult |-> got.value, nextCalls |-> 1]
    ELSE [authResult |-> unauthenticatedResult, nextCalls |-> 1]

\* authMiddleware(req, res, next): awaits handleAuthentication, attaches the
\* verdict (or the unauthenticated one when it threw) and calls next().
AuthMiddleware ==
    /\ fn = "none"
    /\ \E r \in Requests, n \in Networks, f \in Faults :
        /\ f.raised => n = NoAnswers
        /\ LET got == handleAuthentication(r, n, f)
           IN  /\ outcome' = got
               /\ authResult' = authMiddleware(got).authResult
               /\ nextCalls' = authMiddleware(got).nextCalls
        /\ fn' = "authMiddleware"
        /\ req' = r
        /\ net' = n
        /\ fault' = f
        /\ UNCHANGED <<ENTER_TOKEN, beyondAuth>>

\* The call is over and its request gone; the next request may come.
RequestDone ==
    /\ fn # "none"
    /\ fn' = "none"
    /\ req' = MkRequest(undefined, undefined,
                        <<undefined, undefined>>, <<undefined, undefined>>)
    /\ net' = NoAnswers
    /\ fault' = NoFault
    /\ outcome' = NoCall
    /\ authResult' = NoAuthResult
    /\ nextCalls' = 0
    /\ UNCHANGED <<ENTER_TOKEN, beyondAuth>>

Next ==
    \/ RequestDone
    \/ CallShouldBypassQueue
    \/ AuthMiddleware

Spec == Init /\ [][Next]_vars

-----------------------------------------------------------------------------
(* shouldBypassQueue, await by await *)

\* The memoized lookups, in the order the cascade names them.
LookupNames ==
    <<"getUserTierFromGithubId", "validateApiTokenDb", "checkReferrerInDb">>

\* The argument shouldBypassQueue passes to the lookup `name'.
Argument(name, r) ==
    CASE name = "getUserTierFromGithubId" -> extractGithubUserId(r)
      [] name = "validateApiTokenDb" -> extractToken(r)
      [] name = "checkReferrerInDb" -> extractReferrer(r)

\* What the awaited promise of the lookup `name' resolves to.
Awaited(name, r, n) ==
    CASE name = "getUserTierFromGithubId" ->
            getUserTierFromGithubId(extractGithubUserId(r), n)
      [] name = "validateApiTokenDb" -> validateApiTokenDb(extractToken(r), n)
      [] name = "checkReferrerInDb" -> checkReferrerInDb(extractReferrer(r), n)

\* Where control goes from the head of the referrer block: to the await of
\* checkReferrerInDb, or to the default return.
referrerBlock(ref) == IF Truthy(ref) THEN "checkReferrerInDb" ELSE "return"

\* Likewise from the head of the token block.
tokenBlock(token, ref) ==
    IF Truthy(token) THEN "validateApiTokenDb" ELSE referrerBlock(ref)

\* Likewise from the head of the enter-token block.
enterTokenBlock(r) ==
    LET enterToken == extractEnterToken(r)
    IN  IF Truthy(enterToken) /\ validateEnterToken(enterToken)
        THEN IF Truthy(extractGithubUserId(r))
             THEN "getUserTierFromGithubId" ELSE "return"
        ELSE tokenBlock(extractToken(r), extractReferrer(r))

\* Faulty variant of afterLookup: the referrer is looked up after the bearer
\* token whether the token was found valid or not.
afterLookup_TryNext(name, result, r) ==
    IF name = "validateApiTokenDb"
    THEN referrerBlock(extractReferrer(r))
    ELSE "return"

\* Where control goes when the awaited lookup `name' has resolved to
\* `result'.
afterLookup(name, result, r) ==
    CASE name = "getUserTierFromGithubId" -> "return"
      [] name = "validateApiTokenDb" ->
            IF HasUserId(result) THEN "return"
            ELSE referrerBlock(extractReferrer(r))
      [] name = "checkReferrerInDb" -> "return"

IssueEvent(lookup) == [kind |-> "issue", lookup |-> lookup]
SettleEvent(lookup, result) ==
    [kind |-> "settle", lookup |-> lookup, found |-> HasUserId(result)]

\* shouldBypassQueue(req) runs to its first await, or to its return.
BeginShouldBypassQueue ==
    /\ fn = "none"
    /\ pc = "idle"
    /\ \E r \in Requests, n \in Networks :
        LET to == enterTokenBlock(r)
        IN  /\ fn' = "shouldBypassQueue"
            /\ req' = r
            /\ net' = n
            /\ IF to = "return"
               THEN /\ pc' = "returned"
                    /\ pending' = {}
                    /\ events' = <<>>
                    /\ outcome' = shouldBypassQueue(r, n)
               ELSE /\ pc' = to
                    /\ pending' = {Lookup(to, Argument(to, r))}
                    /\ events' = <<IssueEvent(Lookup(to, Argument(to, r)))>>
                    /\ outcome' = NoCall
    /\ UNCHANGED <<ENTER_TOKEN, fault, authResult, nextCalls, beyondCascade>>

\* The awaited lookup resolves and shouldBypassQueue runs on to its next
\* await, or to its return.
ResumeShouldBypassQueue ==
    /\ fn = "shouldBypassQueue"
    /\ pc \notin {"idle", "returned"}
    /\ LET lookup == Lookup(pc, Argument(pc, req))
           result == Awaited(pc, req, net)
           to == afterLookup(pc, result, req)
           settled == Append(events, SettleEvent(lookup, result))
       IN  IF to = "return"
           THEN /\ pc' = "returned"
                /\ pending' = pending \ {lookup}
                /\ events' = settled
                /\ outcome' = shouldBypassQueue(req, net)
           ELSE /\ pc' = to
                /\ pending' = (pending \ {lookup})
                                \cup {Lookup(to, Argument(to, req))}
                /\ events' =
                     Append(settled, IssueEvent(Lookup(to, Argument(to, req))))
                /\ outcome' = NoCall
    /\ UNCHANGED <<ENTER_TOKEN, fn, req, net, fault, authResult, nextCalls,
                   beyondCascade>>

\* The caller has the verdict; the next request may come.
LeaveShouldBypassQueue ==
    /\ pc = "returned"
    /\ pc' = "idle"
    /\ pending' = {}
    /\ events' = <<>>
    /\ fn' = "none"
    /\ req' = MkRequest(undefined, undefined,
                        <<undefined, undefined>>, <<undefined, undefined>>)
    /\ net' = NoAnswers
    /\ outcome' = NoCall
    /\ UNCHANGED <<ENTER_TOKEN, fault, authResult, nextCalls, beyondCascade>>

NextCascade ==
    \/ BeginShouldBypassQueue
    \/ ResumeShouldBypassQueue
    \/ LeaveShouldBypassQueue

SpecCascade == Init /\ [][NextCascade]_vars

-----------------------------------------------------------------------------
(* The memoized lookups under concurrent callers *)

InitCache ==
    /\ ENTER_TOKEN = TestEnterToken
    /\ AuthIdle
    /\ CascadeIdle
    /\ CachesEmpty
    /\ HandlerIdle
    /\ QueuesEmpty
    /\ RouterIdle

NextCache ==
    \/ \E c \in Callers, l \in LookupKeys : CallLookup(c, l)
    \/ \E call \in calls : ServiceAnswers(call)
    \/ \E call \in calls : Deliver(call)
    \/ TakeResults
    \/ Tick
    \/ \E l \in LookupKeys : Revoke(l)

SpecCache == InitCache /\ [][NextCache]_vars

\* The lookups of the pages of two sites and of a token.
NextSites ==
    \/ \E c \in Callers, l \in SiteKeys : CallLookup(c, l)
    \/ \E call \in calls : ServiceAnswers(call)
    \/ \E call \in calls : Deliver(call)
    \/ TakeResults
    \/ Tick

SpecSites == InitCache /\ [][NextSites]_vars

-----------------------------------------------------------------------------
(* handleTextGeneration behind the middleware chain *)

beyondGate ==
    <<ENTER_TOKEN, authVars, cascadeVars, cacheVars, queueVars, routerVars>>

\* The router has applied the middleware chain: authMiddleware has attached
\* the verdict of handleAuthentication, or the unauthenticated one when it
\* threw.
Authenticated ==
    /\ handler = "idle"
    /\ \E r \in Requests, n \in Networks, f \in Faults :
        /\ f.raised => n = NoAnswers
        /\ LET got == handleAuthentication(r, n, f)
           IN  reqAuthResult' = AuthResultRead(authMiddleware(got).authResult)
    /\ handler' = "routed"
    /\ UNCHANGED <<requestData, finalRequestData, res, enqueued, generated,
                   beyondGate>>

\* handleTextGeneration up to its first await after the request is read:
\* parseRequestBody and getRequestData, the tier gating, the user's model
\* mapping, then the await of checkAndLogMonitoredStrings or the call of
\* enqueue.
HandleTextGeneration ==
    /\ handler = "routed"
    /\ \E parsed \in BOOLEAN, model \in RequestedModels, messages \in BOOLEAN,
          mapping \in Mappings :
        LET data == [model |-> model, messages |-> messages]
            gate == tierGating(reqAuthResult, data)
            mapped == userModelMapping(reqAuthResult, data, mapping)
        IN  IF ~parsed
            THEN /\ res' = Response("500", <<"parseRequestBody">>)
                 /\ handler' = "done"
                 /\ UNCHANGED <<requestData, finalRequestData, enqueued>>
            ELSE /\ requestData' = data
                 /\ IF ~gate.pass
                    THEN /\ res' = gate.response
                         /\ handler' = "done"
                         /\ UNCHANGED <<finalRequestData, enqueued>>
                    ELSE IF ~mapped.pass
                    THEN /\ res' = mapped.response
                         /\ handler' = "done"
                         /\ UNCHANGED <<finalRequestData, enqueued>>
                    ELSE /\ finalRequestData' = mapped.data
                         /\ res' = res
                         /\ IF Truthy(reqAuthResult.username)
                               /\ mapped.data.messages
                            THEN /\ handler' = "monitoring"
                                 /\ enqueued' = enqueued
                            ELSE /\ handler' = "enqueued"
                                 /\ enqueued' = <<queueConfig(reqAuthResult)>>
    /\ UNCHANGED <<reqAuthResult, generated, beyondGate>>

\* checkAndLogMonitoredStrings settles: handleTextGeneration goes on to
\* enqueue, or the rejection lands in its catch.
MonitorSettles ==
    /\ handler = "monitoring"
    /\ \E resolved \in BOOLEAN :
        IF resolved
        THEN /\ handler' = "enqueued"
             /\ enqueued' = <<queueConfig(reqAuthResult)>>
             /\ res' = res
        ELSE /\ handler' = "done"
             /\ enqueued' = enqueued
             /\ res' = Response("500", <<"checkAndLogMonitoredStrings">>)
    /\ UNCHANGED <<reqAuthResult, requestData, finalRequestData, generated,
                   beyondGate>>

\* The queue runs the task: generateTextPortkey is called with the prepared
\* request, and its completion or its error is sent.
RunTask ==
    /\ handler = "enqueued"
    /\ generated' = <<finalRequestData.model>>
    /\ \E status \in {"200", "500"} :
        res' = Response(status, <<"generateTextPortkey">>)
    /\ handler' = "done"
    /\ UNCHANGED <<reqAuthResult, requestData, finalRequestData, enqueued,
                   beyondGate>>

\* The request is over; the next one may come.
HandlerReturns ==
    /\ handler = "done"
    /\ handler' = "idle"
    /\ reqAuthResult' = [absent |-> TRUE]
    /\ requestData' = NoRequestData
    /\ finalRequestData' = NoRequestData
    /\ res' = NoResponse
    /\ enqueued' = <<>>
    /\ generated' = <<>>
    /\ UNCHANGED beyondGate

NextGate ==
    \/ Authenticated
    \/ HandleTextGeneration
    \/ MonitorSettles
    \/ RunTask
    \/ HandlerReturns

SpecGate == InitCache /\ [][NextGate]_vars

-----------------------------------------------------------------------------
(* The admission queue under concurrent requests *)

NextQueue ==
    \/ \E k \in QueueKeys, auth \in QueueClasses : Enqueue(k, auth)
    \/ \E k \in QueueKeys : Admit(k)
    \/ \E k \in QueueKeys : Finish(k)
    \/ QueueTick

SpecQueue == InitCache /\ [][NextQueue]_vars

-----------------------------------------------------------------------------
(* The router and its middleware chain *)

beyondRouter ==
    <<ENTER_TOKEN, authVars, cascadeVars, cacheVars, gateVars, queueVars>>

\* http.createServer(router): the router is called with a request.
RouterCalled(i) ==
    /\ stage[i] = "idle"
    /\ \E request \in Inbounds : inbound' = [inbound EXCEPT ![i] = request]
    /\ stage' = [stage EXCEPT ![i] = "applyMiddleware"]
    /\ UNCHANGED <<promise, nextCalled, ran, ended, beyondRouter>>

\* One turn of the loop of applyMiddleware up to its await: nextCalled is
\* reset, the promise is made and the middleware is called in its executor.
\* corsMiddleware ends an OPTIONS request and blockIPMiddleware one of a
\* blocked address, both without calling next(); otherwise they call next(),
\* which sets nextCalled and resolves the promise.  authMiddleware returns
\* at its await of handleAuthentication.
CallMiddleware(i) ==
    /\ stage[i] = "applyMiddleware"
    /\ LET middleware == Middlewares[Len(ran[i]) + 1]
           stops ==
             \/ middleware = "corsMiddleware" /\ inbound[i].method = "OPTIONS"
             \/ middleware = "blockIPMiddleware" /\ inbound[i].blocked
           calledNext == middleware # "authMiddleware" /\ ~stops
       IN  /\ ran' = [ran EXCEPT ![i] = Append(@, middleware)]
           /\ nextCalled' = [nextCalled EXCEPT ![i] = calledNext]
           /\ promise' = [promise EXCEPT
                            ![i] = IF calledNext THEN "resolved" ELSE "pending"]
           /\ ended' = [ended EXCEPT
                          ![i] = IF ~stops THEN @
                                 ELSE IF middleware = "corsMiddleware"
                                      THEN "200" ELSE "403"]
    /\ stage' = [stage EXCEPT ![i] = "await"]
    /\ UNCHANGED <<inbound, beyondRouter>>

\* handleAuthentication settles and authMiddleware goes on: it attaches the
\* verdict and calls next().
AuthMiddlewareResumes(i) ==
    /\ stage[i] = "await"
    /\ promise[i] = "pending"
    /\ ran[i][Len(ran[i])] = "authMiddleware"
    /\ ~nextCalled[i]
    /\ \E f \in Faults :
        LET got == handleAuthentication(
                        MkRequest(undefined, undefined,
                                  <<undefined, undefined>>,
                                  <<undefined, undefined>>),
                        NoAnswers, f)
            calledNext == authMiddleware(got).nextCalls > 0
        IN  /\ calledNext
            /\ nextCalled' = [nextCalled EXCEPT ![i] = TRUE]
            /\ promise' = [promise EXCEPT ![i] = "resolved"]
    /\ UNCHANGED <<inbound, stage, ran, ended, beyondRouter>>

\* The promise that applyMiddleware awaits is resolved: the loop goes on
\* with the next middleware, applyMiddleware returns true after the last
\* one, or it returns false when next() was not called and the router
\* returns.
ApplyMiddlewareResumes(i) ==
    /\ stage[i] = "await"
    /\ promise[i] = "resolved"
    /\ promise' = [promise EXCEPT ![i] = "none"]
    /\ stage' = [stage EXCEPT
                   ![i] = IF ~nextCalled[i] THEN "stopped"
                          ELSE IF Len(ran[i]) < Len(Middlewares)
                               THEN "applyMiddleware" ELSE "route"]
    /\ UNCHANGED <<inbound, nextCalled, ran, ended, beyondRouter>>

\* The route of the request: the handler of its path and method.
RouteOf(request) ==
    CASE request.pathname = "/" /\ request.method = "GET" -> "handleRoot"
      [] request.pathname = "/" /\ request.method = "POST" ->
            "handleTextGeneration"
      [] request.pathname = "/" /\ request.method \notin {"GET", "POST"} ->
            "none"
      [] request.pathname = "/models" -> "handleModels"
      [] OTHER -> "handleTextGeneration"

\* The router calls the handler of the route.
Route(i) ==
    /\ stage[i] = "route"
    /\ ran' = [ran EXCEPT
                 ![i] = IF RouteOf(inbound[i]) = "none" THEN @
                        ELSE Append(@, RouteOf(inbound[i]))]
    /\ \E status \in {"200", "500"} : ended' = [ended EXCEPT ![i] = status]
    /\ stage' = [stage EXCEPT ![i] = "handled"]
    /\ UNCHANGED <<inbound, promise, nextCalled, beyondRouter>>

\* The router call completes.
RouterReturns(i) ==
    /\ stage[i] \in {"handled", "stopped"}
    /\ inbound' = [inbound EXCEPT ![i] = NoInbound]
    /\ stage' = [stage EXCEPT ![i] = "idle"]
    /\ promise' = [promise EXCEPT ![i] = "none"]
    /\ nextCalled' = [nextCalled EXCEPT ![i] = FALSE]
    /\ ran' = [ran EXCEPT ![i] = <<>>]
    /\ ended' = [ended EXCEPT ![i] = "none"]
    /\ UNCHANGED beyondRouter

NextRouter ==
    \/ \E i \in RouterCalls : RouterCalled(i)
    \/ \E i \in RouterCalls : CallMiddleware(i)
    \/ \E i \in RouterCalls : AuthMiddlewareResumes(i)
    \/ \E i \in RouterCalls : ApplyMiddlewareResumes(i)
    \/ \E i \in RouterCalls : Route(i)
    \/ \E i \in RouterCalls : RouterReturns(i)

\* What the event loop owes a router call: every step of it that can be
\* taken is taken in the end.
RouterProgress(i) ==
    \/ CallMiddleware(i)
    \/ AuthMiddlewareResumes(i)
    \/ ApplyMiddlewareResumes(i)
    \/ Route(i)
    \/ RouterReturns(i)

SpecRouter ==
    /\ InitCache
    /\ [][NextRouter]_vars
    /\ \A i \in RouterCalls : WF_vars(RouterProgress(i))

-----------------------------------------------------------------------------
(* Vocabulary of the properties *)

\* The header as the request carries it, under either spelling.
EnterTokenHeader(r) ==
    IF r.headers["x-enter-token"] # undefined
    THEN r.headers["x-enter-token"] ELSE r.headers["X-Enter-Token"]
GithubIdHeader(r) ==
    IF r.headers["x-github-id"] # undefined
    THEN r.headers["x-github-id"] ELSE r.headers["X-Github-Id"]

EnterHeaderNames == {"x-enter-token", "X-Enter-Token"}

\* The request presents the configured secret.
ValidElevated(r) == Truthy(ENTER_TOKEN) /\ EnterTokenHeader(r) = ENTER_TOKEN

\* The upstream id of the request resolves at the trust service.
GithubResolves(r, n) ==
    /\ Truthy(GithubIdHeader(r))
    /\ HasUserId(getUserTierFromGithubId(GithubIdHeader(r), n))

\* The bearer token of the request is validated by the trust service.
TokenValidates(r, n) ==
    /\ Truthy(extractToken(r))
    /\ HasUserId(validateApiTokenDb(extractToken(r), n))

\* The referrer of the request is registered with the trust service.
ReferrerRegistered(r, n) ==
    /\ Truthy(extractReferrer(r))
    /\ HasUserId(checkReferrerInDb(extractReferrer(r), n))

\* The function whose outcome the state holds.
Callee == IF fn = "authMiddleware" THEN "handleAuthentication" ELSE fn

\* The call of `name' met no foreign exception and returned.
Returned(name) == Callee = name /\ ~fault.raised /\ outcome.kind = "return"

\* The last call issued a lookup through the memoized function `name'.
Issued(name) == \E i \in DOMAIN outcome.lookups : outcome.lookups[i].fn = name

ElevatedReasons == {"ENTER_TOKEN_WITH_GITHUB", "ENTER_TOKEN"}
SuccessReasons == ElevatedReasons \cup {"DB_TOKEN", "DB_REFERRER"}

\* The decision part of a verdict.
Decision(v) == <<v.authenticated, v.reason, v.userId, v.username, v.tier>>

-----------------------------------------------------------------------------
(* Properties of the cascade *)

\* C1: a request that presents the configured enter token and a GitHub id
\* that resolves is authenticated by shouldBypassQueue with reason
\* ENTER_TOKEN_WITH_GITHUB, and userId, username and tier are those the
\* GitHub-id lookup returned, whatever bearer token or referrer it carries.
C1_EnterTokenWithGithub ==
    (Returned("shouldBypassQueue") /\ ValidElevated(req) /\ GithubResolves(req, net))
    => LET found == getUserTierFromGithubId(GithubIdHeader(req), net)
           v == outcome.value
       IN  /\ v.authenticated
           /\ v.reason = "ENTER_TOKEN_WITH_GITHUB"
           /\ v.userId = found.userId
           /\ v.username = found.username
           /\ v.tier = found.tier

\* The case of C1 with a validated bearer token and a registered referrer
\* in the same request.
C1_Witness ==
    /\ Returned("shouldBypassQueue")
    /\ ValidElevated(req) /\ GithubResolves(req, net)
    /\ TokenValidates(req, net) /\ ReferrerRegistered(req, net)
    /\ outcome.value.reason = "ENTER_TOKEN_WITH_GITHUB"
    /\ outcome.value.tier = "flower"

\* C2: a request that presents the configured enter token and no GitHub id,
\* or one that does not resolve, is authenticated with reason ENTER_TOKEN,
\* userId and username null and tier seed, and neither the bearer token nor
\* the referrer is looked up.
C2_EnterTokenDefaultTier ==
    (Returned("shouldBypassQueue") /\ ValidElevated(req) /\ ~GithubResolves(req, net))
    => LET v == outcome.value
       IN  /\ v.authenticated
           /\ v.reason = "ENTER_TOKEN"
           /\ v.userId = null
           /\ v.username = null
           /\ v.tier = "seed"
           /\ ~Issued("validateApiTokenDb")
           /\ ~Issued("checkReferrerInDb")

\* The case of C2 where the GitHub id is given, does not resolve, and the
\* request also carries a bearer token that would validate.
C2_Witness ==
    /\ Returned("shouldBypassQueue")
    /\ ValidElevated(req) /\ Truthy(GithubIdHeader(req))
    /\ ~GithubResolves(req, net)
    /\ TokenValidates(req, net)
    /\ outcome.value.reason = "ENTER_TOKEN"

\* C3: a request with the configured enter token and a bearer token that
\* validates or a registered referrer resolves with an elevated reason,
\* never DB_TOKEN or DB_REFERRER, and issues no validate-token or
\* validate-referrer lookup.
C3_ElevatedPriority ==
    (/\ \/ Returned("shouldBypassQueue")
        \/ Returned("handleAuthentication")
     /\ ValidElevated(req)
     /\ TokenValidates(req, net) \/ ReferrerRegistered(req, net))
    => /\ outcome.value.reason \in ElevatedReasons
       /\ ~Issued("validateApiTokenDb")
       /\ ~Issued("checkReferrerInDb")

\* The case of C3 with both a validated bearer token and a registered
\* referrer.
C3_Witness ==
    /\ Returned("handleAuthentication")
    /\ ValidElevated(req)
    /\ TokenValidates(req, net) /\ ReferrerRegistered(req, net)
    /\ outcome.value.reason = "ENTER_TOKEN"

\* C4: a request without the configured enter token whose bearer token the
\* trust service validates is authenticated with reason DB_TOKEN and the
\* identity the token lookup returned, with or without a referrer, and no
\* referrer lookup is issued.
C4_BearerToken ==
    (Returned("shouldBypassQueue") /\ ~ValidElevated(req) /\ TokenValidates(req, net))
    => LET found == validateApiTokenDb(extractToken(req), net)
           v == outcome.value
       IN  /\ v.authenticated
           /\ v.reason = "DB_TOKEN"
           /\ v.userId = found.userId
           /\ v.username = found.username
           /\ v.tier = found.tier
           /\ ~Issued("checkReferrerInDb")

\* The case of C4 with a wrong enter token and a registered referrer in the
\* request.
C4_Witness ==
    /\ Returned("shouldBypassQueue")
    /\ EnterTokenHeader(req) = WrongEnterToken
    /\ TokenValidates(req, net) /\ ReferrerRegistered(req, net)
    /\ outcome.value.reason = "DB_TOKEN"

\* The referrer is the only credential of the request that succeeds.
OnlyReferrer(r, n) ==
    ~ValidElevated(r) /\ ~TokenValidates(r, n) /\ ReferrerRegistered(r, n)

\* The tier in the trust service's answer to the referrer lookup.
ReportedReferrerTier(n) == n.referrer.data.tier

NoStrategySucceeds(r, n) ==
    ~ValidElevated(r) /\ ~TokenValidates(r, n) /\ ~ReferrerRegistered(r, n)

\* C6: when no strategy succeeds the verdict is unauthenticated, with
\* tokenAuth and referrerAuth false, reason NO_AUTH_METHOD_SUCCESS, userId
\* null and tier anonymous.
C6_NoAuthVerdict ==
    (/\ \/ Returned("shouldBypassQueue")
        \/ Returned("handleAuthentication")
     /\ NoStrategySucceeds(req, net))
    => LET v == outcome.value
       IN  /\ ~v.authenticated
           /\ ~v.tokenAuth
           /\ ~v.referrerAuth
           /\ v.reason = "NO_AUTH_METHOD_SUCCESS"
           /\ v.userId = null
           /\ v.tier = "anonymous"

\* The case of C6 where every credential is present and every one fails.
C6_Witness ==
    /\ Returned("shouldBypassQueue")
    /\ NoStrategySucceeds(req, net)
    /\ EnterTokenHeader(req) = WrongEnterToken
    /\ Truthy(extractToken(req)) /\ Truthy(extractReferrer(req))
    /\ outcome.value.reason = "NO_AUTH_METHOD_SUCCESS"

\* The same entry point run on another request under the same answers of
\* the trust service.
Rerun(r) ==
    IF Callee = "shouldBypassQueue" THEN shouldBypassQueue(r, net)
    ELSE handleAuthentication(r, net, NoFault)

\* C7: a request whose enter token is not the configured secret gets the
\* verdict (authenticated, reason, userId, username, tier) and issues the
\* lookups of the same request without the x-enter-token header.
C7_InvalidEnterTokenIgnored ==
    (/\ \/ Returned("shouldBypassQueue")
        \/ Returned("handleAuthentication")
     /\ ~ValidElevated(req))
    => LET other == Rerun(WithHeaders(req, EnterHeaderNames, undefined))
       IN  /\ other.kind = "return"
           /\ Decision(outcome.value) = Decision(other.value)
           /\ outcome.lookups = other.lookups

\* The case of C7 where a wrong enter token comes with a bearer token that
\* validates.
C7_Witness ==
    /\ Returned("shouldBypassQueue")
    /\ Truthy(ENTER_TOKEN)
    /\ EnterTokenHeader(req) = WrongEnterToken
    /\ TokenValidates(req, net)
    /\ outcome.value.reason = "DB_TOKEN"

\* The bearer token of the request is present and fails validation.
TokenFails(r, n) == Truthy(extractToken(r)) /\ ~TokenValidates(r, n)

WithGithubId(r, g) ==
    [r EXCEPT !.headers = [h \in HeaderNames |->
        CASE h = "x-github-id" -> g[1]
          [] h = "X-Github-Id" -> g[2]
          [] OTHER -> r.headers[h]]]

\* C9: without the configured enter token the x-github-id header changes
\* nothing of the verdict's authenticated flag, reason, userId and tier,
\* and no GitHub-id lookup is issued.
C9_GithubIdNotTrustedAlone ==
    (/\ \/ Returned("shouldBypassQueue")
        \/ Returned("handleAuthentication")
     /\ ~ValidElevated(req))
    => /\ ~Issued("getUserTierFromGithubId")
       /\ \A g \in GithubHeaderPairs :
            LET other == Rerun(WithGithubId(req, g))
                v == outcome.value
            IN  /\ other.kind = "return"
                /\ v.authenticated = other.value.authenticated
                /\ v.reason = other.value.reason
                /\ v.userId = other.value.userId
                /\ v.tier = other.value.tier

\* The case of C9 where the GitHub id would resolve at the trust service
\* and no other credential succeeds.
C9_Witness ==
    /\ Returned("shouldBypassQueue")
    /\ ~ValidElevated(req)
    /\ GithubResolves(req, net)
    /\ ~outcome.value.authenticated

\* The reason of a verdict; the verdict of authMiddleware's catch has none.
ReasonOf(v) == IF "reason" \in DOMAIN v THEN v.reason ELSE undefined

\* C10: in every verdict that shouldBypassQueue or handleAuthentication
\* returns or authMiddleware attaches to the request, authenticated is true
\* exactly when the reason is one of ENTER_TOKEN_WITH_GITHUB, ENTER_TOKEN,
\* DB_TOKEN and DB_REFERRER, which is when the recorded method
\* (debugInfo.authResult) is not NONE; any other verdict has the reason
\* NO_AUTH_METHOD_SUCCESS or none.
C10_AuthenticatedIffMethod ==
    /\ (Returned("shouldBypassQueue") \/ Returned("handleAuthentication"))
       => LET v == outcome.value
          IN  /\ v.authenticated <=> v.reason \in SuccessReasons
              /\ v.authenticated <=> v.debugInfo.authResult # "NONE"
              /\ v.reason \in SuccessReasons \cup {"NO_AUTH_METHOD_SUCCESS"}
    /\ fn = "authMiddleware"
       => /\ authResult.authenticated <=> ReasonOf(authResult) \in SuccessReasons
          /\ ReasonOf(authResult) \in
                SuccessReasons \cup {"NO_AUTH_METHOD_SUCCESS", undefined}

\* The case of C10 where handleAuthentication threw and authMiddleware
\* attached the verdict of its catch.
C10_Witness ==
    /\ fn = "authMiddleware"
    /\ fault.raised
    /\ outcome.kind = "throw"
    /\ ~authResult.authenticated
    /\ nextCalls = 1

-----------------------------------------------------------------------------
(* Properties of the cascade's lookups in time *)

\* The place of a lookup in the priority order of the strategies.
Priority(name) ==
    CHOOSE i \in DOMAIN LookupNames : LookupNames[i] = name

\* The events of the call are issue, settle, issue, settle, ...
Alternating ==
    \A i \in DOMAIN events :
        events[i].kind = (IF i % 2 = 1 THEN "issue" ELSE "settle")

\* C11: within one request the lookups are issued in the order elevated
\* token, bearer token, referrer; a lookup is issued only when the lookup
\* issued before it has settled without an identity; at most one lookup of
\* the request is outstanding; and after a strategy has succeeded (a valid
\* enter token, or a lookup that found an identity) no further lookup is
\* issued.
C11_SequentialCascade ==
    /\ Cardinality(pending) <= 1
    /\ Alternating
    /\ \A i \in DOMAIN events :
        /\ events[i].kind = "settle" =>
             events[i].lookup = events[i - 1].lookup
        /\ (events[i].kind = "issue" /\ i > 1) =>
             /\ ~events[i - 1].found
             /\ Priority(events[i - 1].lookup.fn) < Priority(events[i].lookup.fn)
        /\ (events[i].kind = "issue" /\ ValidElevated(req)) =>
             events[i].lookup.fn = "getUserTierFromGithubId"
        /\ (events[i].kind = "issue" /\ ~ValidElevated(req)) =>
             events[i].lookup.fn # "getUserTierFromGithubId"
    /\ pending = {} <=> pc \in {"idle", "returned"}
    /\ pc = "returned" =>
         outcome.lookups =
            [i \in 1..(Len(events) \div 2) |-> events[2 * i - 1].lookup]

\* The case of C11 where the bearer token's lookup settled without an
\* identity and the referrer's lookup was issued after it and settled.
C11_Witness ==
    /\ pc = "returned"
    /\ Len(events) = 4
    /\ events[1].lookup.fn = "validateApiTokenDb"
    /\ ~events[2].found
    /\ events[3].lookup.fn = "checkReferrerInDb"
    /\ events[4].found
    /\ outcome.value.reason = "DB_REFERRER"

-----------------------------------------------------------------------------
(* Properties of the memoized lookups *)

\* The remote calls that are running for a key.
InFlight(l) == {call \in calls : call.lookup = l}

\* The callers that hold a value of the key.
Holders(l) ==
    {c \in Callers : callers[c].state = "got" /\ callers[c].lookup = l}

\* C12: for each of the three memoized lookups, a call for a key whose
\* remote call is in flight issues no second remote call: at most one
\* remote call per key is running, every caller that waits awaits the one
\* running call of its own key and of no other key, the callers a delivery
\* releases all hold the value of that one call, and a call for a key
\* without an entry can start whatever calls are running for other keys.
C12_Coalescing ==
    /\ \A l \in LookupKeys : Cardinality(InFlight(l)) <= 1
    /\ \A call \in calls : call.found.state # "pending"
    /\ \A c \in Callers :
        callers[c].state = "waiting" =>
            /\ \E call \in InFlight(callers[c].lookup) : call.by = callers[c].by
            /\ cache[callers[c].lookup].state = "pending"
            /\ cache[callers[c].lookup].by = callers[c].by
    /\ \A l \in LookupKeys : \A c \in Holders(l) :
        /\ cache[l].state = "resolved"
        /\ callers[c].value = cache[l].value
        /\ ~callers[c].cached => cache[l].insertedAt = clock
    /\ \A c \in Callers, l \in LookupKeys :
        (/\ NoneGot
         /\ callers[c].state = "idle"
         /\ cache[l].state = "absent"
         /\ remoteCalls < MaxRemoteCalls)
        => ENABLED CallLookup(c, l)

\* The case of C12 where both callers were released by the one remote call
\* of a bearer token while the result of a referrer's call is cached.
C12_Witness ==
    /\ \A c \in Callers :
        /\ callers[c].state = "got"
        /\ callers[c].lookup = Lookup("validateApiTokenDb", "test-regular-token")
        /\ ~callers[c].cached
        /\ HasUserId(callers[c].value)
    /\ calls = {}
    /\ cache[Lookup("checkReferrerInDb", "https://example.com/page")].state
         = "resolved"

\* C13: a null result is cached: while a key's entry holds null, no remote
\* call for the key is running and every call for it returns null; no
\* remote call is ever issued for a key that has an entry; and two remote
\* calls for one key are never issued less than maxAge apart.
C13_NegativeCached ==
    /\ \A l \in LookupKeys :
        (cache[l].state = "resolved" /\ cache[l].value.isNull) =>
            /\ InFlight(l) = {}
            /\ clock - cache[l].insertedAt < maxAge
            /\ \A c \in Holders(l) : callers[c].value.isNull
    /\ \A call \in calls :
        /\ call.found.state = "absent"
        /\ call.previous # Never => call.issuedAt - call.previous >= maxAge

\* The case of C13 where the trust service has answered that a revoked key
\* is not valid and a later call gets the cached null with no remote call
\* running.
C13_Witness ==
    \E c \in Callers :
        /\ callers[c].state = "got"
        /\ callers[c].cached
        /\ callers[c].value.isNull
        /\ service[callers[c].lookup].revokedAt # Never
        /\ clock > cache[callers[c].lookup].insertedAt
        /\ calls = {}

\* A caller holds an identity for a key the trust service has revoked.
HoldsRevoked(c) ==
    /\ callers[c].state = "got"
    /\ HasUserId(callers[c].value)
    /\ service[callers[c].lookup].revokedAt # Never

\* C14 as stated: no call returns a cached value older than maxAge, no entry
\* outlives maxAge (so that the first call after it issues a remote call),
\* and a revoked key authenticates no longer than one maxAge after its
\* revocation.
C14_RevokedWithinTtl ==
    /\ \A l \in LookupKeys :
        cache[l].state = "resolved" => clock - cache[l].insertedAt < maxAge
    /\ \A c \in Callers :
        HoldsRevoked(c) =>
            clock - service[callers[c].lookup].revokedAt <= maxAge

\* C14, amended: no call returns a cached value older than maxAge, counted
\* from the arrival of the answer; no entry outlives maxAge, so that the
\* first call after it issues a remote call; and a revoked key authenticates
\* no longer than one maxAge plus the duration of the remote call whose
\* answer is cached after its revocation.
C14_RevokedWithinTtlAndLatency ==
    /\ \A l \in LookupKeys :
        cache[l].state = "resolved" => clock - cache[l].insertedAt < maxAge
    /\ \A call \in calls : call.found.state # "resolved"
    /\ \A c \in Callers :
        callers[c].state = "got" =>
            LET entry == cache[callers[c].lookup]
            IN  /\ entry.state = "resolved"
                /\ callers[c].value = entry.value
                /\ clock - entry.insertedAt < maxAge
                /\ HoldsRevoked(c) =>
                     clock - service[callers[c].lookup].revokedAt
                        < maxAge + (entry.insertedAt - entry.issuedAt)

\* The case of C14 where the answer to a remote call arrived after the key
\* was revoked and a later call gets the cached identity more than maxAge
\* after the revocation.
C14_Witness ==
    \E c \in Callers :
        /\ HoldsRevoked(c)
        /\ callers[c].cached
        /\ cache[callers[c].lookup].insertedAt
              > service[callers[c].lookup].revokedAt
        /\ clock - service[callers[c].lookup].revokedAt > maxAge


-----------------------------------------------------------------------------
(* Properties of the lookups' failure handling *)

\* The answer of the trust service that the lookup `name' gets.
AnswerTo(name, n) ==
    CASE name = "getUserTierFromGithubId" -> n.userInfo
      [] name = "validateApiTokenDb" -> n.token
      [] name = "checkReferrerInDb" -> n.referrer

\* The answer is a transport failure, or a body without the identity the
\* lookup's result is built from.
Unusable(name, response) ==
    \/ response.status # "ok"
    \/ CASE name = "getUserTierFromGithubId" ->
                \/ ~response.data.user.present
                \/ ~Truthy(response.data.user.github_user_id)
         [] name = "validateApiTokenDb" -> ~Truthy(response.data.userId)
         [] name = "checkReferrerInDb" -> ~Truthy(response.data.user_id)

\* C15: every lookup that shouldBypassQueue issued and that met a transport
\* failure (fetch threw, a status that is not 2xx, a body that is not JSON or
\* that lacks the expected fields) resulted in null; shouldBypassQueue
\* returned instead of throwing, and its verdict does not come from that
\* lookup's strategy.
C15_TransportFailureIsNull ==
    (Callee = "shouldBypassQueue" /\ ~fault.raised)
    => /\ outcome.kind = "return"
       /\ \A i \in DOMAIN outcome.lookups :
            LET lookup == outcome.lookups[i]
            IN  Unusable(lookup.fn, AnswerTo(lookup.fn, net))
                => /\ Invoke(lookup, AnswerTo(lookup.fn, net)).isNull
                   /\ outcome.value.reason #
                        (CASE lookup.fn = "getUserTierFromGithubId" ->
                                 "ENTER_TOKEN_WITH_GITHUB"
                           [] lookup.fn = "validateApiTokenDb" -> "DB_TOKEN"
                           [] lookup.fn = "checkReferrerInDb" -> "DB_REFERRER")


-----------------------------------------------------------------------------
(* Properties of the tier gate and the queue configuration *)

\* The model is registered, under its name or an alias.
Registered(name) ==
    \E i \in DOMAIN availableModels :
        name = availableModels[i].name \/ name \in availableModels[i].aliases

\* The minimum tier of a registered model.
MinTier(name) ==
    LET i == CHOOSE i \in DOMAIN availableModels :
                 name = availableModels[i].name
                 \/ name \in availableModels[i].aliases
    IN  availableModels[i].tier

\* tier is at or above required in anonymous < seed < flower < nectar.
TierAtLeast(tier, required) ==
    \/ tier = required
    \/ required = "anonymous"
    \/ tier = "nectar"
    \/ tier = "flower" /\ required = "seed"

\* The request asks for a registered model that the verdict's tier allows.
Entitled ==
    /\ Registered(requestData.model)
    /\ TierAtLeast(reqAuthResult.tier, MinTier(requestData.model))

\* handleTextGeneration has read the request and is through with it.
Handled == handler = "done" /\ requestData # NoRequestData

PassedOn == enqueued # <<>> /\ generated # <<>>

\* C16 as stated: a request that handleTextGeneration has dealt with was
\* passed on to the queue and the generator if and only if its model is
\* registered (by name or alias) and the verdict's tier is at or above the
\* model's minimum tier.
C16_PassedOnIffEntitled ==
    Handled => (PassedOn <=> Entitled)

\* C16: only a request whose model is registered and within the verdict's
\* tier is enqueued, and only an enqueued request reaches the generator; such
\* a request is passed on to the queue and the generator unless the user's
\* model mapping refuses it (403) or the monitoring of its input fails (500).
C16_PassedOnOnlyIfEntitled ==
    /\ enqueued # <<>> => Entitled
    /\ generated # <<>> => enqueued # <<>>
    /\ ~Registered(requestData.model) => enqueued = <<>> /\ generated = <<>>
    /\ (Handled /\ Entitled)
       => \/ PassedOn
          \/ /\ ~PassedOn
             /\ Truthy(reqAuthResult.username)
             /\ \/ res = Response("403", <<"getUserMappedModel">>)
                \/ res = Response("500", <<"checkAndLogMonitoredStrings">>)

\* The case of C16 where a request for an alias, by a caller of the very tier
\* the model requires, has reached the generator.
C16_Witness ==
    /\ Handled
    /\ requestData.model = "gpt-4o"
    /\ reqAuthResult.tier = "flower"
    /\ PassedOn

\* C17: an insufficient tier is answered with 402 and a message that carries
\* the caller's tier, the required tier and the pointer to
\* auth.pollinations.ai; a model that is not registered is answered with 404
\* `Model not found' and never with 402; in both cases nothing is enqueued and
\* the generator is not called.
C17_DistinctRejections ==
    /\ res.status = "402"
       => /\ Registered(requestData.model)
          /\ ~TierAtLeast(reqAuthResult.tier, MinTier(requestData.model))
    /\ res.status \in {"402", "404"}
       => handler = "done" /\ enqueued = <<>> /\ generated = <<>>
    /\ (Handled /\ Registered(requestData.model) /\ ~Entitled)
       => /\ res.status = "402"
          /\ res.message[2] = reqAuthResult.tier
          /\ res.message[4] = MinTier(requestData.model)
          /\ res.message[5] = AuthPointer
    /\ (Handled /\ ~Registered(requestData.model))
       => res = Response("404", <<"Model not found: ", requestData.model>>)

\* The case of C17 where a seed caller asked for a flower model by its alias.
C17_Witness ==
    /\ Handled
    /\ requestData.model = "gpt-4o"
    /\ reqAuthResult.tier = "seed"
    /\ res.status = "402"

\* C18: the interval a request is enqueued with is 1000 for the verdicts of
\* the enter token (with or without identity) and of a bearer token, 3000 for
\* the verdict of a referrer and 6000 for every other verdict.
C18_IntervalByMethod ==
    enqueued # <<>>
    => /\ Len(enqueued) = 1
       /\ enqueued[1].interval =
            (CASE reqAuthResult.reason
                    \in {"ENTER_TOKEN_WITH_GITHUB", "ENTER_TOKEN", "DB_TOKEN"}
                    -> 1000
               [] reqAuthResult.reason = "DB_REFERRER" -> 3000
               [] OTHER -> 6000)

\* The case of C18 where a request with the enter token and no identity is
\* enqueued.
C18_Witness ==
    /\ enqueued # <<>>
    /\ reqAuthResult.reason = "ENTER_TOKEN"
    /\ enqueued[1].interval = 1000


-----------------------------------------------------------------------------
(* Properties of the admission queue *)

\* The task of key k admitted last.
LastOf(k) == admissions[k][Len(admissions[k])]

\* C19: at most one task of a key is executing at any instant, and the tasks
\* of a key start in the order in which they were enqueued, whatever the
\* interval each was enqueued with.
C19_SerializedInOrder ==
    \A k \in QueueKeys :
        /\ Cardinality(running[k]) <= 1
        /\ \A i, j \in DOMAIN queues[k] :
                i < j => queues[k][i].id < queues[k][j].id
        /\ admissions[k] # <<>>
           => /\ running[k] \subseteq {LastOf(k).id}
              /\ \A i \in DOMAIN queues[k] : LastOf(k).id < queues[k][i].id
        /\ Len(admissions[k]) = 2 => admissions[k][1].id < admissions[k][2].id

\* The case of C19 where a task enqueued with 1000 started after the task
\* enqueued with 6000 before it for the same key, whose execution had ended,
\* while a task of the other key is executing.
C19_Witness ==
    \E k, other \in QueueKeys :
        /\ k # other
        /\ Len(admissions[k]) = 2
        /\ admissions[k][1].interval = 6000
        /\ admissions[k][2].interval = 1000
        /\ running[k] = {admissions[k][2].id}
        /\ running[other] # {}

\* C20: a task enqueued with an interval is admitted no earlier than that
\* interval after the previous admission for its key.
C20_AdmissionSpacing ==
    \A k \in QueueKeys :
        /\ admissions[k] # <<>> => lastAdmitted[k] = LastOf(k).at
        /\ admissions[k] = <<>> => lastAdmitted[k] = Never
        /\ Len(admissions[k]) = 2
           => admissions[k][2].at - admissions[k][1].at
                >= admissions[k][2].interval

\* The case of C20 where two tasks submitted back to back for one key were
\* admitted exactly the interval of the second (3000) apart.
C20_Witness ==
    \E k \in QueueKeys :
        /\ Len(admissions[k]) = 2
        /\ admissions[k][2].id = admissions[k][1].id + 1
        /\ admissions[k][2].interval = 3000
        /\ admissions[k][2].at - admissions[k][1].at = 3000


-----------------------------------------------------------------------------
(* Properties of the debug trace *)

\* str holds part as a run of consecutive characters.
Contains(str, part) ==
    \E from \in 1..(Len(str) - Len(part) + 1) :
        SubSeq(str, from, from + Len(part) - 1) = part

\* C21: the debug trace of a verdict holds no secret in full: of a bearer
\* token it holds the first four and the last four characters around "...",
\* never the token itself; of an enter token it holds the first eight
\* characters and "...", never the token itself; a credential the request
\* lacks is recorded as null.
C21_NoFullSecret ==
    Returned("shouldBypassQueue")
    => LET debugInfo == outcome.value.debugInfo
           token == extractToken(req)
           enterToken == extractEnterToken(req)
       IN  /\ Truthy(token)
              => /\ debugInfo.token =
                        SubSeq(token, 1, 4) \o "..."
                        \o SubSeq(token, Len(token) - 3, Len(token))
                 /\ ~Contains(debugInfo.token, token)
           /\ ~Truthy(token) => debugInfo.token = null
           /\ Truthy(enterToken)
              => /\ debugInfo.enterToken = SubSeq(enterToken, 1, 8) \o "..."
                 /\ ~Contains(debugInfo.enterToken, enterToken)
           /\ ~Truthy(enterToken) => debugInfo.enterToken = null


\* What shouldBypassQueue returned to the handleAuthentication of the state.
VerdictOfCascade == shouldBypassQueue(req, net).value

-----------------------------------------------------------------------------
(* Properties of the verdict's flags and of the middleware *)

\* The verdict the state holds: the one shouldBypassQueue or
\* handleAuthentication returned, or the one authMiddleware attached.
VerdictHeld ==
    IF fn = "authMiddleware" THEN authResult ELSE outcome.value

TokenReasons == {"ENTER_TOKEN_WITH_GITHUB", "ENTER_TOKEN", "DB_TOKEN"}

\* C23: in every verdict tokenAuth and referrerAuth are not both true,
\* authenticated holds exactly when one of them does, tokenAuth holds exactly
\* for the reasons ENTER_TOKEN_WITH_GITHUB, ENTER_TOKEN and DB_TOKEN, and
\* referrerAuth exactly for DB_REFERRER.
C23_FlagsByMethod ==
    (fn = "authMiddleware" \/ Returned("shouldBypassQueue"))
    => LET v == VerdictHeld
       IN  /\ ~(v.tokenAuth /\ v.referrerAuth)
           /\ v.authenticated <=> (v.tokenAuth \/ v.referrerAuth)
           /\ v.tokenAuth <=> ReasonOf(v) \in TokenReasons
           /\ v.referrerAuth <=> ReasonOf(v) = "DB_REFERRER"

\* The case of C23 where a valid enter token without GitHub id sets
\* tokenAuth as a bearer token does, on a request that also has a registered
\* referrer.
C23_Witness ==
    /\ Returned("shouldBypassQueue")
    /\ outcome.value.reason = "ENTER_TOKEN"
    /\ outcome.value.tokenAuth
    /\ ~outcome.value.referrerAuth
    /\ ReferrerRegistered(req, net)


\* C24: whatever handleAuthentication comes to, authMiddleware attaches a
\* verdict and calls next() exactly once; the verdict is the one
\* handleAuthentication returned, or, when it threw, the unauthenticated one
\* with the tier anonymous.
C24_MiddlewareAlwaysPasses ==
    fn = "authMiddleware"
    => /\ nextCalls = 1
       /\ authResult # NoAuthResult
       /\ outcome.kind = "return" => authResult = outcome.value
       /\ outcome.kind = "throw"
          => authResult = [authenticated |-> FALSE, tokenAuth |-> FALSE,
                           referrerAuth |-> FALSE, tier |-> "anonymous"]

\* The case of C24 where handleAuthentication threw its 401 for an invalid
\* token.
C24_Witness ==
    /\ fn = "authMiddleware"
    /\ outcome.kind = "throw"
    /\ outcome.error.status = "401"
    /\ nextCalls = 1
    /\ ~authResult.authenticated


\* C25: while ENTER_TOKEN is unset or empty no request gets the verdict
\* ENTER_TOKEN or ENTER_TOKEN_WITH_GITHUB, whatever x-enter-token it
\* carries, and no GitHub id is looked up; the verdict and the lookups are
\* those of the same request without the x-enter-token header.
C25_ElevatedDisabledWithoutSecret ==
    (/\ ~Truthy(ENTER_TOKEN)
     /\ Returned("shouldBypassQueue") \/ Returned("handleAuthentication"))
    => LET other == Rerun(WithHeaders(req, EnterHeaderNames, undefined))
       IN  /\ outcome.value.reason \notin ElevatedReasons
           /\ ~Issued("getUserTierFromGithubId")
           /\ other.kind = "return"
           /\ Decision(outcome.value) = Decision(other.value)
           /\ outcome.lookups = other.lookups

\* The case of C25 where ENTER_TOKEN is unset and a request presents the
\* secret of the test together with a GitHub id that would resolve.
C25_Witness ==
    /\ ENTER_TOKEN = undefined
    /\ Returned("shouldBypassQueue")
    /\ EnterTokenHeader(req) = TestEnterToken
    /\ GithubResolves(req, net)
    /\ outcome.value.reason = "NO_AUTH_METHOD_SUCCESS"


-----------------------------------------------------------------------------
(* Properties of the model that is executed *)

\* C26 as stated: the model handed to generateTextPortkey is registered and
\* its minimum tier is at or below the tier of the verdict.
C26_GateCoversExecutedModel ==
    generated # <<>>
    => /\ Registered(generated[1])
       /\ TierAtLeast(reqAuthResult.tier, MinTier(generated[1]))

\* C26: the model handed to generateTextPortkey is the requested model, which
\* is registered with a minimum tier at or below the tier of the verdict, or,
\* for a verdict with a username, the model that getUserMappedModel put in
\* its place, which the tier gating has not looked at.
C26_GateCoversRequestedModel ==
    generated # <<>>
    => /\ Len(generated) = 1
       /\ generated[1] = finalRequestData.model
       /\ Entitled
       /\ generated[1] # requestData.model => Truthy(reqAuthResult.username)

\* The case of C26 where a seed caller asked for the anonymous model and the
\* generator got the nectar model, to which the caller's name is mapped.
C26_Witness ==
    /\ generated = <<"openai-reasoning">>
    /\ requestData.model = "openai"
    /\ reqAuthResult.tier = "seed"

-----------------------------------------------------------------------------
(* Properties of the middleware chain *)

\* A router call whose middleware ended the response without calling next().
EndedWithoutNext(i) ==
    /\ stage[i] = "await"
    /\ ~nextCalled[i]
    /\ ended[i] \in {"200", "403"}

\* The middlewares and the handler that ran are the chain in its order,
\* followed by at most one handler.
RanInOrder(i) ==
    \/ /\ Len(ran[i]) <= Len(Middlewares)
       /\ ran[i] = SubSeq(Middlewares, 1, Len(ran[i]))
    \/ /\ Len(ran[i]) = Len(Middlewares) + 1
       /\ SubSeq(ran[i], 1, Len(Middlewares)) = Middlewares
       /\ ran[i][Len(ran[i])] \in
            {"handleRoot", "handleModels", "handleTextGeneration"}

\* C27: the middleware chain always terminates.  The middlewares run in the
\* order corsMiddleware, blockIPMiddleware, authMiddleware; when a middleware
\* ends the response without calling next(), applyMiddleware returns false
\* and no later middleware or handler runs; and every router call completes.
C27_ChainTerminates ==
    /\ [](\A i \in RouterCalls : RanInOrder(i))
    /\ \A i \in RouterCalls :
          EndedWithoutNext(i) ~> (stage[i] = "stopped")
    /\ \A i \in RouterCalls : (stage[i] # "idle") ~> (stage[i] = "idle")

\* C27, what does hold: the order of the chain, nothing runs after a
\* middleware that ended the response, and the calls that every middleware
\* passes on complete.
C27_PassedOnCallsComplete ==
    /\ [](\A i \in RouterCalls : RanInOrder(i))
    /\ [][\A i \in RouterCalls : EndedWithoutNext(i) => ran'[i] = ran[i]]_vars
    /\ \A i \in RouterCalls :
          (/\ stage[i] # "idle"
           /\ inbound[i].method # "OPTIONS"
           /\ ~inbound[i].blocked) ~> (stage[i] = "idle")

\* C27: a call ended by a middleware stays at the await of applyMiddleware.
C27_Witness ==
    \E i \in RouterCalls :
        /\ EndedWithoutNext(i)
        /\ promise[i] = "pending"
        /\ inbound[i].blocked
        /\ ran[i] = <<"corsMiddleware", "blockIPMiddleware">>


-----------------------------------------------------------------------------
(* Properties of the caches under concurrent requests *)

\* The values a lookup of the key can resolve to: what its function makes
\* of an answer of the trust service for that key, or of a failed call.
AnswersFor(l) ==
    { Invoke(l, response) :
        response \in {ValidResponse(l), InvalidResponse(l), Failed("notok")} }

\* C28: verdicts are isolated across concurrent requests.  Under every
\* interleaving of the callers, the value a caller goes on with was made
\* from an answer for its own key by the function of its own lookup kind; a
\* caller that awaits a running call awaits a call for its own key; and the
\* entry of a key holds a value made for that key.
C28_VerdictsIsolated ==
    /\ \A c \in Callers :
          callers[c].state = "got" =>
              callers[c].value \in AnswersFor(callers[c].lookup)
    /\ \A c \in Callers :
          callers[c].state = "waiting" =>
              \E call \in calls :
                  /\ call.lookup = callers[c].lookup
                  /\ call.by = callers[c].by
    /\ \A l \in MemoKeys :
          cache[l].state = "resolved" => cache[l].value \in AnswersFor(l)

\* C28: a caller is served the cached identity of one site while the other
\* caller awaits the running call for a page of another site.
C28_Witness ==
    \E c, d \in Callers :
        /\ callers[c].state = "got"
        /\ callers[c].cached
        /\ callers[c].lookup.key = "https://elsewhere.org/"
        /\ ~callers[c].value.isNull
        /\ callers[c].value.userId = "u-elsewhere"
        /\ callers[d].state = "waiting"
        /\ callers[d].lookup.key = "https://example.com/page"
        /\ \E call \in calls :
              call.lookup = callers[d].lookup /\ call.state = "answered"


\* The last remote calls of two referrers fell into one TTL window.
WithinOneWindow(l1, l2) ==
    /\ lastIssued[l1] # Never
    /\ lastIssued[l2] # Never
    /\ lastIssued[l1] - lastIssued[l2] < maxAge
    /\ lastIssued[l2] - lastIssued[l1] < maxAge

\* C29: the referrer lookup is cached and coalesced per normalized domain.
\* Two lookups within one TTL window whose referrers differ but have the
\* same hostname cause at most one validate-referrer call for that domain:
\* no two different referrers of one domain have each had a remote call
\* within one window.
C29_OneCallPerDomain ==
    \A l1, l2 \in ReferrerKeys :
        (l1 # l2 /\ apiUrl(l1.key) = apiUrl(l2.key)) =>
            ~WithinOneWindow(l1, l2)

\* C29, what does hold: the lookup is cached and coalesced per referrer as
\* it is passed.  While a call for a referrer runs or its result is cached,
\* no other remote call for that referrer is running.
C29_OneCallPerReferrer ==
    \A l \in ReferrerKeys :
        /\ Cardinality({call \in calls : call.lookup = l}) <= 1
        /\ \A call \in calls :
              call.lookup = l =>
                  cache[l] = Pending(call.by, call.issuedAt)


\* The remote call ended in a transport failure and its promise resolves in
\* this step.
FailureDelivered(call) ==
    /\ call.state = "answered"
    /\ call.response.status # "ok"
    /\ call \notin calls'

\* C30: a transport failure is equivalent to a cache miss.  A lookup whose
\* remote call ended in a transport failure leaves no cache entry, so that
\* the next lookup of the key issues a new remote call; and a caller served
\* from the cache is served a genuine answer of the trust service (while a
\* key has not been revoked, its genuine answer is not null).
C30_FailureIsCacheMiss ==
    /\ [][\A call \in calls :
            FailureDelivered(call) => cache'[call.lookup].state = "absent"]_vars
    /\ [](\A c \in Callers :
            (/\ callers[c].state = "got"
             /\ callers[c].cached
             /\ service[callers[c].lookup].revokedAt = Never)
            => ~callers[c].value.isNull)

\* C30, what does hold: the null of a transport failure is cached like an
\* answer, and a failure reaches no caller as anything but null.
C30_FailureIsCachedNull ==
    [][\A call \in calls :
          FailureDelivered(call) =>
              /\ cache[call.lookup] = Pending(call.by, call.issuedAt)
              /\ cache'[call.lookup].state = "resolved"
              /\ cache'[call.lookup].value.isNull
              /\ cache'[call.lookup].insertedAt = clock]_vars


=============================================================================
